---------------------------- MODULE Spec2Model ----------------------------
(***************************************************************************)
(* TSGW gateway orchestrator: server.Start and the functions it calls      *)
(* (newRedirectServer, buildRouteRuntimes, startLocalServers,              *)
(* applyTailscaleServeConfig, ensureAdvertiseServices,                     *)
(* bestEffortCleanupServeConfig, removeAdvertiseServices,                  *)
(* shutdownLocalServers), together with the net/http servers, the errgroup *)
(* and the local-control plane they act on.                                *)
(*                                                                         *)
(* Strings are sequences of byte values so that Go's byte-wise string      *)
(* order (sort.Strings, sort.Slice with <) can be computed.                *)
(***************************************************************************)
EXTENDS Integers, Sequences, FiniteSets, TLC

\* ------------------------------------------------------------------ bounds
NumRoutes == 2          \* number of declared routes (len(cfg.Routes))
MaxConns  == 1          \* inbound connections open at the same time
MaxPrefs  == 3          \* length of an AdvertiseServices list another client writes

\* --------------------------------------------------------------- constants
DefaultHTTPPort  == 80
DefaultHTTPSPort == 443

\* ----------------------------------------------------------------- strings
\* "svc:"
SvcPrefix == <<115, 118, 99, 58>>
\* "api", "app", "web", "wiki": the pool the declared route names come from
RouteNames == << <<97, 112, 105>>, <<97, 112, 112>>, <<119, 101, 98>>,
                 <<119, 105, 107, 105>> >>
\* "svc:db": a service some other client (the operator) advertises
OperatorService == <<115, 118, 99, 58, 100, 98>>
\* "example.ts.net" is abbreviated to "ts"
SuffixTs == <<116, 115>>

Routes == {RouteNames[i] : i \in 1..NumRoutes}

\* The redirect server is identified by the empty name (no route is empty).
Redirect == <<>>
Servers == Routes \cup {Redirect}

\* Ephemeral loopback ports the kernel can hand out.
Ports == 1..(NumRoutes + 1)

serviceNameForRoute(routeName) == SvcPrefix \o routeName

GatewayServices == {serviceNameForRoute(r) : r \in Routes}

\* Go's string comparison a < b (byte-wise lexicographic).
RECURSIVE StrLess(_, _)
StrLess(a, b) ==
    IF Len(b) = 0 THEN FALSE
    ELSE IF Len(a) = 0 THEN TRUE
    ELSE IF Head(a) # Head(b) THEN Head(a) < Head(b)
    ELSE StrLess(Tail(a), Tail(b))

\* sort.Strings / sort.Slice(<) on a list without duplicates, given as a set.
RECURSIVE SortStrings(_)
SortStrings(S) ==
    IF S = {} THEN <<>>
    ELSE LET m == CHOOSE x \in S : \A y \in S \ {x} : StrLess(x, y)
         IN  <<m>> \o SortStrings(S \ {m})

SeqToSet(s) == {s[i] : i \in 1..Len(s)}

IsSortedNoDup(s) == \A i \in 1..(Len(s) - 1) : StrLess(s[i], s[i + 1])

equalStringSlices_AsSets(a, b) == SeqToSet(a) = SeqToSet(b)

\* equalStringSlices(a, b)
equalStringSlices(a, b) ==
    /\ Len(a) = Len(b)
    /\ \A i \in 1..Len(a) : a[i] = b[i]

\* ---------------------------------------------------------- backend URLs
\* Backend URLs handed to NewRouteProxy, as byte strings (no '@', '%' or
\* blank occurs in them).
\* "http://a:80"
URLHostPort == <<104, 116, 116, 112, 58, 47, 47, 97, 58, 56, 48>>
\* "https://b/x"
URLHTTPS == <<104, 116, 116, 112, 115, 58, 47, 47, 98, 47, 120>>
\* "http://[::1:80/" (route_proxy_test.go:42)
URLNoBracket == <<104, 116, 116, 112, 58, 47, 47, 91, 58, 58, 49, 58, 56, 48, 47>>
\* "http://a:x"
URLBadPort == <<104, 116, 116, 112, 58, 47, 47, 97, 58, 120>>
\* "a:80"
URLNoScheme == <<97, 58, 56, 48>>
\* "b/x"
URLPathOnly == <<98, 47, 120>>
\* ":80"
URLColonFirst == <<58, 56, 48>>
\* "ftp://a"
URLFtp == <<102, 116, 112, 58, 47, 47, 97>>
\* "HTTP://a"
URLUpper == <<72, 84, 84, 80, 58, 47, 47, 97>>

BackendURLs ==
    {URLHostPort, URLHTTPS, URLNoBracket, URLBadPort, URLNoScheme, URLPathOnly,
     URLColonFirst, URLFtp, URLUpper}

\* "http" and "https", "http://" and "https://"
SchemeHTTP == <<104, 116, 116, 112>>
SchemeHTTPS == <<104, 116, 116, 112, 115>>
PrefixHTTP == <<104, 116, 116, 112, 58, 47, 47>>
PrefixHTTPS == <<104, 116, 116, 112, 115, 58, 47, 47>>

\* strings.HasPrefix, strings.IndexByte and strings.LastIndexByte (0: absent)
HasPrefix(s, p) == Len(s) >= Len(p) /\ SubSeq(s, 1, Len(p)) = p

IndexByte(s, c) ==
    IF \E i \in 1..Len(s) : s[i] = c
    THEN CHOOSE i \in 1..Len(s) : s[i] = c /\ \A j \in 1..(i - 1) : s[j] # c
    ELSE 0

LastIndexByte(s, c) ==
    IF \E i \in 1..Len(s) : s[i] = c
    THEN CHOOSE i \in 1..Len(s) : s[i] = c /\ \A j \in (i + 1)..Len(s) : s[j] # c
    ELSE 0

IsUpper(c) == c >= 65 /\ c <= 90
IsLetter(c) == IsUpper(c) \/ (c >= 97 /\ c <= 122)
IsDigit(c) == c >= 48 /\ c <= 57

\* strings.ToLower on ASCII
ToLower(s) == [i \in 1..Len(s) |-> IF IsUpper(s[i]) THEN s[i] + 32 ELSE s[i]]

\* net/url getScheme: the scheme is the run of [A-Za-z][A-Za-z0-9+-.]* before
\* the first ':'; a ':' in first position is an error; any other byte before
\* a ':' means there is no scheme.
RECURSIVE getSchemeFrom(_, _)
getSchemeFrom(raw, i) ==
    IF i > Len(raw) THEN [err |-> FALSE, scheme |-> <<>>, rest |-> raw]
    ELSE LET c == raw[i] IN
         IF IsLetter(c) THEN getSchemeFrom(raw, i + 1)
         ELSE IF IsDigit(c) \/ c \in {43, 45, 46}
              THEN IF i = 1 THEN [err |-> FALSE, scheme |-> <<>>, rest |-> raw]
                   ELSE getSchemeFrom(raw, i + 1)
         ELSE IF c = 58
              THEN IF i = 1 THEN [err |-> TRUE, scheme |-> <<>>, rest |-> <<>>]
                   ELSE [err |-> FALSE, scheme |-> SubSeq(raw, 1, i - 1),
                         rest |-> SubSeq(raw, i + 1, Len(raw))]
         ELSE [err |-> FALSE, scheme |-> <<>>, rest |-> raw]

getScheme(raw) == getSchemeFrom(raw, 1)

\* net/url validOptionalPort: "" or ':' followed by digits only
validOptionalPort(port) ==
    \/ port = <<>>
    \/ /\ port[1] = 58
       /\ \A i \in 2..Len(port) : IsDigit(port[i])

\* net/url parseHost: a bracketed host needs its ']', and what follows the
\* host must be a valid optional port.
parseHostFails(host) ==
    IF HasPrefix(host, <<91>>)
    THEN LET i == LastIndexByte(host, 93) IN
         \/ i = 0
         \/ ~validOptionalPort(SubSeq(host, i + 1, Len(host)))
    ELSE LET i == LastIndexByte(host, 58) IN
         /\ i # 0
         /\ ~validOptionalPort(SubSeq(host, i, Len(host)))

\* What url.Parse returns: the error, or the fields of the *url.URL.
ParseError ==
    [err |-> TRUE, Scheme |-> <<>>, Opaque |-> <<>>, Host |-> <<>>, Path |-> <<>>]

\* net/url Parse: control bytes are refused, the fragment and the query are
\* cut off, the scheme is taken and lower-cased; a rest without leading '/'
\* is opaque under a scheme and otherwise must not have ':' in its first
\* segment; a rest beginning with "//" carries the authority up to the next '/'.
urlParse(rawURL) ==
    IF \E i \in 1..Len(rawURL) : rawURL[i] < 32 \/ rawURL[i] = 127 THEN ParseError
    ELSE
    LET f == IndexByte(rawURL, 35)
        u == IF f = 0 THEN rawURL ELSE SubSeq(rawURL, 1, f - 1)
        gs == getScheme(u)
    IN  IF gs.err THEN ParseError
        ELSE
        LET scheme == ToLower(gs.scheme)
            q == IndexByte(gs.rest, 63)
            rest == IF q = 0 THEN gs.rest ELSE SubSeq(gs.rest, 1, q - 1)
            slash == IndexByte(rest, 47)
            segment == IF slash = 0 THEN rest ELSE SubSeq(rest, 1, slash - 1)
        IN  IF ~HasPrefix(rest, <<47>>) /\ scheme # <<>>
            THEN [err |-> FALSE, Scheme |-> scheme, Opaque |-> rest,
                  Host |-> <<>>, Path |-> <<>>]
            ELSE IF ~HasPrefix(rest, <<47>>) /\ IndexByte(segment, 58) # 0
            THEN ParseError
            ELSE IF /\ scheme # <<>> \/ ~HasPrefix(rest, <<47, 47, 47>>)
                    /\ HasPrefix(rest, <<47, 47>>)
            THEN LET r2 == SubSeq(rest, 3, Len(rest))
                     sl == IndexByte(r2, 47)
                     authority == IF sl = 0 THEN r2 ELSE SubSeq(r2, 1, sl - 1)
                     path == IF sl = 0 THEN <<>> ELSE SubSeq(r2, sl, Len(r2))
                 IN  IF parseHostFails(authority) THEN ParseError
                     ELSE [err |-> FALSE, Scheme |-> scheme, Opaque |-> <<>>,
                           Host |-> authority, Path |-> path]
            ELSE [err |-> FALSE, Scheme |-> scheme, Opaque |-> <<>>,
                  Host |-> <<>>, Path |-> rest]

\* ------------------------------------------------------------ RouteProxy
\* cfg: nil, or a *Config of which RequestTimeout (in seconds) matters here.
NilConfig == [nil |-> TRUE, RequestTimeout |-> 0]
ConfigWith(t) == [nil |-> FALSE, RequestTimeout |-> t]

\* The request-timeout flag's default, in seconds (part_003:143).
DefaultRequestTimeout == 30

\* No request: the handler is idle.  prev is the status of the request before.
NoRequest ==
    [phase |-> "none", inHost |-> <<>>, outHost |-> <<>>, deadline |-> FALSE,
     cause |-> "none", status |-> 0, prev |-> 0]

\* made: "none" before the constructor ran, "ok" for a *RouteProxy with nil
\* error, "err" for nil with an error.
NoRouteProxy ==
    [made |-> "none", backendURL |-> <<>>, targetURL |-> ParseError,
     requestTimeout |-> 0, req |-> NoRequest]

\* part_006:22-61
NewRouteProxy(backendURL, cfg) ==
    IF cfg.nil THEN [NoRouteProxy EXCEPT !.made = "err"]
    ELSE LET target == urlParse(backendURL) IN
         IF target.err THEN [NoRouteProxy EXCEPT !.made = "err"]
         ELSE [NoRouteProxy EXCEPT !.made = "ok",
                                   !.backendURL = backendURL,
                                   !.targetURL = target,
                                   !.requestTimeout = cfg.RequestTimeout]

\* ------------------------------------------------------------------- state
VARIABLES
    pc,            \* position of the goroutine running server.Start
    ret,           \* value Start returned ("none" while it runs)
    ctxCancelled,  \* root context cancelled
    shutdownCtx,   \* "none" | "live" | "expired": the 15 s shutdown context
    node,          \* tsnet server: "none" | "open" | "closed"
    badURL,        \* routes whose backend URL url.Parse rejects
    config,        \* s.config: [HTTPPort, HTTPSPort]
    bringUp,       \* startTailscaleServiceHost: what it saw and did so far
    rp,            \* per route: its RouteProxy and the request it is serving
    unit,          \* a function called on its own: its arguments, locals and result
    ln,            \* per server: listener "none" | "open" | "closed"
    port,          \* per server: loopback port of its listener (0: none)
    srv,           \* per server: http.Server record
    task,          \* per server: Serve goroutine "none"|"spawned"|"serving"|"exited"
    conn,          \* per server: its inbound connection "none" | "busy" | "idle"
    built,         \* buildRouteRuntimes' runtimes slice (route names, in map order)
    runtimes,      \* Start's runtimes (set by a successful buildRouteRuntimes)
    serviceNames,  \* Start's serviceNames (sorted)
    gErr,          \* errgroup: first non-nil error of a task ("nil" if none)
    errCh,         \* errCh: "empty" or the value g.Wait() returned
    waited,        \* the goroutine `errCh <- g.Wait()` has sent
    prefs,         \* control plane: Prefs.AdvertiseServices
    serveCfg,      \* control plane: ServeConfig [services, etag]
    lcHung,        \* the local-control API does not answer
    curPrefs,      \* local: result of GetPrefs
    newSC,         \* local: config about to be written
    sdIdx,         \* shutdownLocalServers: index of the server being shut down
    hist           \* history: what Start has done (for the properties only)

vars == <<pc, ret, ctxCancelled, shutdownCtx, node, badURL, config, bringUp, rp, unit, ln, port, srv, task,
          conn, built, runtimes, serviceNames, gErr, errCh, waited, prefs,
          serveCfg, lcHung, curPrefs, newSC, sdIdx, hist>>


\* ------------------------------------------------------------ initial state
\* Error values: a kind, and for an accept error the server whose Serve failed.
E(kind) == [kind |-> kind, from |-> <<>>]
AcceptErr(s) == [kind |-> "ErrAccept", from |-> s]
NoErr == E("nil")
NotReturned == E("none")
Empty == E("empty")

NewServer == [made |-> FALSE, inShutdown |-> FALSE, keepAlives |-> TRUE,
              graceful |-> "none", closed |-> FALSE]

\* History of the run, read by the properties only:
\*   advertised, served  gateway names Start wrote at startup (EditPrefs, SetServeConfig)
\*   lcFailed            a local-control call of the shutdown failed
\*   resultAtExpiry      errCh already held g.Wait's result when the deadline expired
\*   viaErrCh            Start returned what it received from errCh
\*   firstErr            the first non-nil error a Serve task returned
\*   closedLive          a Serve call returned ErrServerClosed with the root context live
\*   second              applyTailscaleServeConfig is being run, or has been run, a second time
\*   otherWriter         another client has written to the control plane
\*   addedNames          names another client advertised between a read and a write of the gateway
\*   addedEntries        serve-config entries another client added between a read and a write
NoHist == [advertised |-> {}, served |-> {}, lcFailed |-> FALSE,
           resultAtExpiry |-> FALSE, viaErrCh |-> FALSE, firstErr |-> NoErr,
           closedLive |-> FALSE, second |-> FALSE, otherWriter |-> FALSE,
           addedNames |-> {}, addedEntries |-> {}]

\* startTailscaleServiceHost's locals and a record of its calls:
\* state is the node's BackendState, loginDone the local of line 92, keys the
\* auth keys created, logins the completed login sequences, seen the number
\* of status answers that said NeedsLogin, upCalled whether Up was called.
NoBringUp ==
    [state |-> "NoState", loginDone |-> FALSE, keys |-> 0, logins |-> 0,
     seen |-> 0, upCalled |-> FALSE]

\* The record after a bring-up that found the node logged in already.
Online == [NoBringUp EXCEPT !.state = "Running", !.upCalled = TRUE]

\* No function is being called on its own.
NoCall == [fn |-> "none"]

\* The flags' defaults (part_003:37-48).
DefaultConfig == [HTTPPort |-> DefaultHTTPPort, HTTPSPort |-> DefaultHTTPSPort]

\* Go's uint16(n) conversion of an int.
Uint16(n) == n % 65536

\* What the node's control-plane state can hold before Start runs: nothing, or
\* an operator's own service together with what an earlier run of the gateway
\* left behind (the names in no particular order).
Dot == <<46>>
Loopback(p) == [scheme |-> "http", host |-> "127.0.0.1", port |-> p]
WebHandler(useTLS, name, suffix, proxy) ==
    [tls |-> useTLS, host |-> name \o Dot \o suffix, proxy |-> proxy]
OperatorEntry == (DefaultHTTPSPort :> WebHandler(TRUE, <<100, 98>>, SuffixTs, Loopback(9)))
StaleEntry == (DefaultHTTPSPort :> WebHandler(TRUE, RouteNames[1], SuffixTs, Loopback(9)))

InitControlPlane ==
    { [prefs |-> <<>>, services |-> <<>>],
      [prefs |-> <<OperatorService, serviceNameForRoute(RouteNames[1])>>,
       services |-> (OperatorService :> OperatorEntry)
                    @@ (serviceNameForRoute(RouteNames[1]) :> StaleEntry)] }

InitGateway ==
    /\ pc = "start"
    /\ ret = NotReturned
    /\ ctxCancelled \in BOOLEAN
    /\ shutdownCtx = "none"
    /\ node = "none"
    /\ badURL \in {B \in SUBSET Routes : Cardinality(B) <= 1}
    /\ config = DefaultConfig
    /\ bringUp = NoBringUp
    /\ rp = [r \in Routes |-> NoRouteProxy]
    /\ ln = [s \in Servers |-> "none"]
    /\ port = [s \in Servers |-> 0]
    /\ srv = [s \in Servers |-> NewServer]
    /\ task = [s \in Servers |-> "none"]
    /\ conn = [s \in Servers |-> "none"]
    /\ built = <<>>
    /\ runtimes = <<>>
    /\ serviceNames = <<>>
    /\ gErr = NoErr
    /\ errCh = Empty
    /\ waited = FALSE
    /\ \E cp \in InitControlPlane :
          /\ prefs = cp.prefs
          /\ serveCfg = [services |-> cp.services, etag |-> 1]
    /\ lcHung = FALSE
    /\ curPrefs = <<>>
    /\ newSC = [services |-> <<>>, etag |-> 0]
    /\ sdIdx = 0
    /\ hist = NoHist

Init == InitGateway /\ unit = NoCall

\* ------------------------------------------------------------------ helpers
ReturnValue_NoClose(e) ==
    /\ pc' = "returned"
    /\ ret' = e
    /\ node' = node

\* Start returns err: the deferred tsServer.Close() runs if the node was started.
ReturnValue(e) ==
    /\ pc' = "returned"
    /\ ret' = e
    /\ node' = IF node = "open" THEN "closed" ELSE node

Return(kind) == ReturnValue(E(kind))

\* A local-control call made with a context: it answers unless the API hangs,
\* and a hung call comes back (with the context's error) once the context is done.
CallSucceeds == ~lcHung
CallFails(ctxDone) == ~lcHung \/ ctxDone

\* net.Listen("tcp", "127.0.0.1:0"): the kernel picks a port no listener holds.
\* Port numbers are interchangeable, so the lowest free one stands for the
\* kernel's choice; which route gets which port still varies with the map order.
FreePorts ==
    LET free == Ports \ {port[s] : s \in Servers}
    IN  {p \in free : \A q \in free : p <= q}

\* part_003:362 / 397: the listener is bound and listening when Listen returns.
BindListener_Deferred(s, p) ==
    /\ ln' = ln
    /\ port' = [port EXCEPT ![s] = p]

BindListener(s, p) ==
    /\ ln' = [ln EXCEPT ![s] = "open"]
    /\ port' = [port EXCEPT ![s] = p]

\* ----------------------------------------------------------- server.Start
\* Start without the ctx.Err() test of part_003:252.
StartCheckCtx_NoCheck ==
    /\ pc = "start"
    /\ pc' = "host"
    /\ UNCHANGED <<ret, node, ctxCancelled, shutdownCtx, badURL, config, bringUp, rp, unit, ln,
                   port, srv, task, conn, built, runtimes, serviceNames, gErr,
                   errCh, waited, prefs, serveCfg, lcHung, curPrefs, newSC,
                   sdIdx, hist>>

\* part_003:252-254
StartCheckCtx ==
    /\ pc = "start"
    /\ IF ctxCancelled
       THEN Return("ErrCtx")
       ELSE /\ pc' = "host"
            /\ UNCHANGED <<ret, node>>
    /\ UNCHANGED <<ctxCancelled, shutdownCtx, badURL, config, bringUp, rp, unit, ln, port, srv, task, conn,
                   built, runtimes, serviceNames, gErr, errCh, waited, prefs,
                   serveCfg, lcHung, curPrefs, newSC, sdIdx, hist>>

\* part_003:258-262: bring-up either yields a running node or fails (the node
\* it started is closed by startTailscaleServiceHost itself).
StartServiceHost ==
    /\ pc = "host"
    /\ \/ /\ node' = "open"
          /\ pc' = "lc"
          /\ ret' = ret
       \/ /\ node' = "closed"
          /\ pc' = "returned"
          /\ ret' = E("ErrServiceHost")
    /\ UNCHANGED <<ctxCancelled, shutdownCtx, badURL, config, bringUp, rp, unit, ln, port, srv, task, conn,
                   built, runtimes, serviceNames, gErr, errCh, waited, prefs,
                   serveCfg, lcHung, curPrefs, newSC, sdIdx, hist>>

\* part_003:264-272: LocalClient, then magicDNSSuffix (one status call).
StartMagicDNSSuffix ==
    /\ pc = "lc"
    /\ \/ /\ CallSucceeds
          /\ pc' = "redirect"
          /\ UNCHANGED <<ret, node>>
       \/ /\ CallFails(ctxCancelled)
          /\ \E e \in {"ErrLocalClient", "ErrStatus", "ErrSuffixEmpty"} : Return(e)
    /\ UNCHANGED <<ctxCancelled, shutdownCtx, badURL, config, bringUp, rp, unit, ln, port, srv, task, conn,
                   built, runtimes, serviceNames, gErr, errCh, waited, prefs,
                   serveCfg, lcHung, curPrefs, newSC, sdIdx, hist>>

\* part_003:361-384 and 274-277
newRedirectServer ==
    /\ pc = "redirect"
    /\ \/ /\ \E p \in FreePorts : BindListener(Redirect, p)
          /\ srv' = [srv EXCEPT ![Redirect].made = TRUE]
          /\ pc' = "build"
          /\ UNCHANGED <<ret, node>>
       \/ /\ Return("ErrListenRedirect")
          /\ UNCHANGED <<ln, port, srv>>
    /\ UNCHANGED <<ctxCancelled, shutdownCtx, badURL, config, bringUp, rp, unit, task, conn,
                   built, runtimes, serviceNames, gErr, errCh, waited, prefs,
                   serveCfg, lcHung, curPrefs, newSC, sdIdx, hist>>

\* http.Server.Close on a server no Serve call has been made on: it only marks
\* the server as shutting down (it tracks no listener and no connection).
CloseUnserved(sv) == [sv EXCEPT !.inShutdown = TRUE, !.closed = TRUE]

\* part_003:280-284: what Start closes when buildRouteRuntimes fails.
CloseAfterBuildFailure ==
    /\ ln' = [ln EXCEPT ![Redirect] = "closed"]
    /\ srv' = [srv EXCEPT ![Redirect] = CloseUnserved(srv[Redirect])]

\* cfg.Routes[r]: a backend URL that parses, or one that does not for the
\* routes in badURL; cfg carries the flags' defaults.
BackendOf(r) == IF r \in badURL THEN URLNoBracket ELSE URLHostPort

FlagConfig == ConfigWith(DefaultRequestTimeout)

\* part_003:391-424: one iteration of the loop over cfg.Routes (Go's map order:
\* any route not yet visited), and after the last one lines 426-428.
buildRouteRuntimes(r) ==
    /\ pc = "build"
    /\ r \in Routes \ SeqToSet(built)
    /\ \/ \* NewRouteProxy fails: url.Parse rejects the backend URL
          /\ r \in badURL
          /\ CloseAfterBuildFailure
          /\ Return("ErrCreateProxy")
          /\ UNCHANGED <<port, built, runtimes, serviceNames, rp>>
       \/ \* net.Listen fails
          /\ r \notin badURL
          /\ CloseAfterBuildFailure
          /\ Return("ErrListenRoute")
          /\ UNCHANGED <<port, built, runtimes, serviceNames, rp>>
       \/ /\ r \notin badURL
          /\ \E p \in FreePorts : BindListener(r, p)
          /\ srv' = [srv EXCEPT ![r].made = TRUE]
          /\ rp' = [rp EXCEPT ![r] = NewRouteProxy(BackendOf(r), FlagConfig)]
          /\ built' = Append(built, r)
          /\ IF Len(built') = Cardinality(Routes)
             THEN /\ runtimes' = built'
                  /\ serviceNames' =
                        SortStrings({serviceNameForRoute(x) : x \in Routes})
                  /\ pc' = "serve"
             ELSE /\ pc' = pc
                  /\ UNCHANGED <<runtimes, serviceNames>>
          /\ UNCHANGED <<ret, node>>
    /\ UNCHANGED <<ctxCancelled, shutdownCtx, badURL, config, bringUp, unit, task, conn,
                   gErr, errCh, waited, prefs,
                   serveCfg, lcHung, curPrefs, newSC, sdIdx, hist>>

\* part_003:431-456: one goroutine per server, and one that waits for them.
startLocalServers ==
    /\ pc = "serve"
    /\ task' = [s \in Servers |-> "spawned"]
    /\ pc' = "ens_get"
    /\ UNCHANGED <<ret, ctxCancelled, shutdownCtx, node, badURL, config, bringUp, rp, unit, ln, port, srv,
                   conn, built, runtimes, serviceNames, gErr, errCh, waited,
                   prefs, serveCfg, lcHung, curPrefs, newSC, sdIdx, hist>>


\* ----------------------------------------------- applyTailscaleServeConfig
\* part_007:19-31: the sorted union of the advertised and the desired names.
MergedServices_DesiredOnly(existing, desired) == SortStrings(SeqToSet(desired))

MergedServices(existing, desired) ==
    SortStrings(SeqToSet(existing) \cup SeqToSet(desired))

\* part_007:14-35: GetPrefs, and the no-diff short-circuit.
ensureAdvertiseServices_GetPrefs ==
    /\ pc = "ens_get"
    /\ \/ /\ CallSucceeds
          /\ curPrefs' = prefs
          /\ pc' = IF equalStringSlices(MergedServices(prefs, serviceNames), prefs)
                   THEN "sc_get" ELSE "ens_edit"
          /\ UNCHANGED <<ret, node>>
       \/ /\ CallFails(ctxCancelled)
          /\ Return("ErrGetPrefs")
          /\ UNCHANGED curPrefs
    /\ UNCHANGED <<ctxCancelled, shutdownCtx, badURL, config, bringUp, rp, unit, ln, port, srv, task, conn,
                   built, runtimes, serviceNames, gErr, errCh, waited, prefs,
                   serveCfg, lcHung, newSC, sdIdx, hist>>

\* part_007:37-48: EditPrefs{AdvertiseServicesSet, AdvertiseServices: merged}.
ensureAdvertiseServices_EditPrefs ==
    /\ pc = "ens_edit"
    /\ \/ /\ CallSucceeds
          /\ prefs' = MergedServices(curPrefs, serviceNames)
          /\ hist' = [hist EXCEPT !.advertised = SeqToSet(prefs') \cap GatewayServices]
          /\ pc' = "sc_get"
          /\ UNCHANGED <<ret, node>>
       \/ /\ CallFails(ctxCancelled)
          /\ Return("ErrEditPrefs")
          /\ UNCHANGED <<prefs, hist>>
    /\ UNCHANGED <<ctxCancelled, shutdownCtx, badURL, config, bringUp, rp, unit, ln, port, srv, task, conn,
                   built, runtimes, serviceNames, gErr, errCh, waited,
                   serveCfg, lcHung, curPrefs, newSC, sdIdx>>

\* part_001:14-30: per route, a handler on the HTTP port (if any) that proxies
\* to the redirect URL, then one on the HTTPS port that proxies to the route's
\* own loopback listener; the later SetWebHandler wins if the ports coincide,
\* and a service entry exists only once SetWebHandler has been called for it.
buildServicesServeConfig(routeToLocalPort, suffix, redirectProxy, httpPort, httpsPort) ==
    [sn \in {serviceNameForRoute(r) : r \in {x \in DOMAIN routeToLocalPort :
                                                httpPort # 0 \/ httpsPort # 0}} |->
        LET r == CHOOSE x \in DOMAIN routeToLocalPort : serviceNameForRoute(x) = sn
            h1 == IF httpPort # 0
                  THEN (httpPort :> WebHandler(FALSE, r, suffix, redirectProxy))
                  ELSE <<>>
            h2 == IF httpsPort # 0
                  THEN (httpsPort :> WebHandler(TRUE, r, suffix,
                                                Loopback(routeToLocalPort[r])))
                  ELSE <<>>
        IN  h2 @@ h1]

\* routePorts as buildRouteRuntimes returns it (part_003:422).
RoutePorts_Swapped ==
    [r \in SeqToSet(runtimes) |->
        port[CHOOSE x \in SeqToSet(runtimes) : x # r]]

RoutePorts == [r \in SeqToSet(runtimes) |-> port[r]]

\* part_003:471-474: build the new config, copy the current ETag if it can be read.
applyTailscaleServeConfig_GetServeConfig ==
    /\ pc = "sc_get"
    /\ LET sc == buildServicesServeConfig(RoutePorts, SuffixTs, Loopback(port[Redirect]),
                                          Uint16(config.HTTPPort), Uint16(config.HTTPSPort))
       IN  \/ /\ CallSucceeds
              /\ newSC' = [services |-> sc, etag |-> serveCfg.etag]
           \/ /\ CallFails(ctxCancelled)
              /\ newSC' = [services |-> sc, etag |-> 0]
    /\ pc' = "sc_set"
    /\ UNCHANGED <<ret, ctxCancelled, shutdownCtx, node, badURL, config, bringUp, rp, unit, ln, port, srv,
                   task, conn, built, runtimes, serviceNames, gErr, errCh, waited,
                   prefs, serveCfg, lcHung, curPrefs, sdIdx, hist>>

\* The control plane accepts a config whose ETag is empty or current.
ETagAccepted(cfg) == cfg.etag = 0 \/ cfg.etag = serveCfg.etag

\* part_003:475-479
applyTailscaleServeConfig_SetServeConfig ==
    /\ pc = "sc_set"
    /\ \/ /\ CallSucceeds
          /\ ETagAccepted(newSC)
          /\ serveCfg' = [services |-> newSC.services, etag |-> serveCfg.etag + 1]
          /\ hist' = [hist EXCEPT !.served = DOMAIN newSC.services]
          /\ pc' = "running"
          /\ UNCHANGED <<ret, node>>
       \/ /\ CallFails(ctxCancelled)
          /\ Return("ErrSetServeConfig")
          /\ UNCHANGED <<serveCfg, hist>>
    /\ UNCHANGED <<ctxCancelled, shutdownCtx, badURL, config, bringUp, rp, unit, ln, port, srv, task, conn,
                   built, runtimes, serviceNames, gErr, errCh, waited, prefs,
                   lcHung, curPrefs, newSC, sdIdx>>

\* ------------------------------------------------------ running and shutdown
\* part_003:303-313: the select, then the fresh 15 s shutdown context.
\* part_003:315-316: the shutdown path begins with bestEffortCleanupServeConfig
\* (whose first call is removeAdvertiseServices); shutdownLocalServers follows.
ShutdownEntry_ServersFirst == "sd_begin"

ShutdownEntry == "rm_get"

StartSelectRunning ==
    /\ pc = "running"
    /\ \/ /\ ctxCancelled
          /\ pc' = ShutdownEntry
          /\ shutdownCtx' = "live"
          /\ sdIdx' = 1
          /\ UNCHANGED <<ret, node, errCh, hist>>
       \/ /\ errCh # Empty
          /\ ReturnValue(errCh)
          /\ errCh' = Empty
          /\ hist' = [hist EXCEPT !.viaErrCh = TRUE]
          /\ UNCHANGED <<shutdownCtx, sdIdx>>
    /\ UNCHANGED <<ctxCancelled, badURL, config, bringUp, rp, unit, ln, port, srv, task, conn,
                   built, runtimes, serviceNames, gErr, waited, prefs,
                   serveCfg, lcHung, curPrefs, newSC>>


\* part_007:57-68: the advertised names that are not ours, in their order.
KeptServices_All(existing, toRemove) == existing

KeptServices_Sorted(existing, toRemove) ==
    SortStrings(SeqToSet(existing) \ SeqToSet(toRemove))

RECURSIVE KeptServices(_, _)
KeptServices(existing, toRemove) ==
    IF existing = <<>> THEN <<>>
    ELSE IF Head(existing) \in SeqToSet(toRemove)
         THEN KeptServices(Tail(existing), toRemove)
         ELSE <<Head(existing)>> \o KeptServices(Tail(existing), toRemove)

\* part_003:312: shutdownCtx.Done() is closed once the 15 s have passed.
ShutdownCtxDone_NoDeadline == FALSE

ShutdownCtxDone == shutdownCtx = "expired"

\* part_007:52-72 (its error is dropped at part_003:483)
removeAdvertiseServices_GetPrefs_Fatal ==
    /\ pc = "rm_get"
    /\ \/ /\ CallSucceeds
          /\ curPrefs' = prefs
          /\ pc' = IF equalStringSlices(KeptServices(prefs, serviceNames), prefs)
                   THEN "cl_get" ELSE "rm_edit"
          /\ UNCHANGED <<ret, node, hist>>
       \/ /\ CallFails(ShutdownCtxDone)
          /\ Return("ErrGetPrefs")
          /\ hist' = [hist EXCEPT !.lcFailed = TRUE]
          /\ UNCHANGED curPrefs
    /\ UNCHANGED <<ctxCancelled, shutdownCtx, badURL, config, bringUp, rp, unit, ln, port, srv,
                   task, conn, built, runtimes, serviceNames, gErr, errCh, waited,
                   prefs, serveCfg, lcHung, newSC, sdIdx>>

removeAdvertiseServices_GetPrefs ==
    /\ pc = "rm_get"
    /\ \/ /\ CallSucceeds
          /\ curPrefs' = prefs
          /\ pc' = IF equalStringSlices(KeptServices(prefs, serviceNames), prefs)
                   THEN "cl_get" ELSE "rm_edit"
          /\ UNCHANGED hist
       \/ /\ CallFails(ShutdownCtxDone)
          /\ pc' = "cl_get"
          /\ hist' = [hist EXCEPT !.lcFailed = TRUE]
          /\ UNCHANGED curPrefs
    /\ UNCHANGED <<ret, ctxCancelled, shutdownCtx, node, badURL, config, bringUp, rp, unit, ln, port, srv,
                   task, conn, built, runtimes, serviceNames, gErr, errCh, waited,
                   prefs, serveCfg, lcHung, newSC, sdIdx>>

\* part_007:74-85
removeAdvertiseServices_EditPrefs ==
    /\ pc = "rm_edit"
    /\ \/ /\ CallSucceeds
          /\ prefs' = KeptServices(curPrefs, serviceNames)
          /\ UNCHANGED hist
       \/ /\ CallFails(ShutdownCtxDone)
          /\ hist' = [hist EXCEPT !.lcFailed = TRUE]
          /\ UNCHANGED prefs
    /\ pc' = "cl_get"
    /\ UNCHANGED <<ret, ctxCancelled, shutdownCtx, node, badURL, config, bringUp, rp, unit, ln, port, srv,
                   task, conn, built, runtimes, serviceNames, gErr, errCh, waited,
                   serveCfg, lcHung, curPrefs, newSC, sdIdx>>

\* part_003:490-498: delete(cur.Services, sn) for each of our names.
WithoutServices_Everything(services, names) == <<>>

WithoutServices(services, names) ==
    [sn \in DOMAIN services \ SeqToSet(names) |-> services[sn]]

\* part_003:485-499
bestEffortCleanupServeConfig_GetServeConfig ==
    /\ pc = "cl_get"
    /\ \/ /\ CallSucceeds
          /\ newSC' = [services |-> WithoutServices(serveCfg.services, serviceNames),
                       etag |-> serveCfg.etag]
          /\ pc' = IF DOMAIN serveCfg.services \cap SeqToSet(serviceNames) # {}
                   THEN "cl_set" ELSE "sd_begin"
          /\ UNCHANGED hist
       \/ /\ CallFails(ShutdownCtxDone)
          /\ pc' = "sd_begin"
          /\ hist' = [hist EXCEPT !.lcFailed = TRUE]
          /\ UNCHANGED newSC
    /\ sdIdx' = 1
    /\ UNCHANGED <<ret, ctxCancelled, shutdownCtx, node, badURL, config, bringUp, rp, unit, ln, port, srv,
                   task, conn, built, runtimes, serviceNames, gErr, errCh, waited,
                   prefs, serveCfg, lcHung, curPrefs>>

\* part_003:499-501
bestEffortCleanupServeConfig_SetServeConfig ==
    /\ pc = "cl_set"
    /\ \/ /\ CallSucceeds
          /\ ETagAccepted(newSC)
          /\ serveCfg' = [services |-> newSC.services, etag |-> serveCfg.etag + 1]
          /\ UNCHANGED hist
       \/ /\ CallFails(ShutdownCtxDone)
          /\ hist' = [hist EXCEPT !.lcFailed = TRUE]
          /\ UNCHANGED serveCfg
    /\ pc' = "sd_begin"
    /\ UNCHANGED <<ret, ctxCancelled, shutdownCtx, node, badURL, config, bringUp, rp, unit, ln, port, srv,
                   task, conn, built, runtimes, serviceNames, gErr, errCh, waited,
                   prefs, lcHung, curPrefs, newSC, sdIdx>>

\* Order in which shutdownLocalServers visits the servers (part_003:505-513).
ShutdownOrder == runtimes \o <<Redirect>>

\* http.Server.SetKeepAlivesEnabled(false) followed by the first part of
\* Shutdown: mark the server as shutting down, close the listeners Serve
\* registered, close idle connections.
BeginShutdown(s) ==
    /\ srv' = [srv EXCEPT ![s].keepAlives = FALSE, ![s].inShutdown = TRUE]
    /\ ln' = [ln EXCEPT ![s] = IF task[s] = "serving" THEN "closed" ELSE @]
    /\ conn' = [conn EXCEPT ![s] = IF @ = "idle" THEN "none" ELSE @]

\* part_003:506-507 / 511-512
shutdownLocalServers_Shutdown ==
    /\ pc = "sd_begin"
    /\ BeginShutdown(ShutdownOrder[sdIdx])
    /\ pc' = "sd_wait"
    /\ UNCHANGED <<ret, ctxCancelled, shutdownCtx, node, badURL, config, bringUp, rp, unit, port, task,
                   built, runtimes, serviceNames, gErr, errCh, waited, prefs,
                   serveCfg, lcHung, curPrefs, newSC, sdIdx, hist>>

\* Shutdown returns nil once the Serve call has let go of its listener and no
\* connection is active, or the context's error once the context is done.
GracefulResult(s) ==
    IF conn[s] # "busy" THEN {"ok"}
    ELSE IF ShutdownCtxDone THEN {"expired"} ELSE {}

\* part_003:508 / 513: Close after Shutdown returned g: whatever connection is
\* left is closed.
CloseServer_OnlyGraceful(s, g) ==
    /\ srv' = [srv EXCEPT ![s].graceful = g]
    /\ conn' = conn

CloseServer(s, g) ==
    /\ srv' = [srv EXCEPT ![s].graceful = g, ![s].closed = TRUE]
    /\ conn' = [conn EXCEPT ![s] = "none"]

\* part_003:507-508 / 512-513: Shutdown returns, then Close drops what is left.
shutdownLocalServers_Close ==
    /\ pc = "sd_wait"
    /\ LET s == ShutdownOrder[sdIdx]
       IN  /\ task[s] # "serving"
           /\ \E g \in GracefulResult(s) : CloseServer(s, g)
    /\ IF sdIdx = Len(ShutdownOrder)
       THEN pc' = "final" /\ sdIdx' = sdIdx
       ELSE pc' = "sd_begin" /\ sdIdx' = sdIdx + 1
    /\ UNCHANGED <<ret, ctxCancelled, shutdownCtx, node, badURL, config, bringUp, rp, unit, ln, port, task,
                   built, runtimes, serviceNames, gErr, errCh, waited, prefs,
                   serveCfg, lcHung, curPrefs, newSC, hist>>

\* part_003:318-323: Go's select takes either case when both are ready.
StartSelectShutdown ==
    /\ pc = "final"
    /\ \/ /\ errCh # Empty
          /\ ReturnValue(errCh)
          /\ errCh' = Empty
          /\ hist' = [hist EXCEPT !.viaErrCh = TRUE]
       \/ /\ ShutdownCtxDone
          /\ Return("ErrDeadlineExceeded")
          /\ UNCHANGED <<errCh, hist>>
    /\ UNCHANGED <<ctxCancelled, shutdownCtx, badURL, config, bringUp, rp, unit, ln, port, srv, task, conn,
                   built, runtimes, serviceNames, gErr, waited, prefs,
                   serveCfg, lcHung, curPrefs, newSC, sdIdx>>


\* --------------------------------------------------- the Serve goroutines
Running == pc # "returned"

\* errgroup: the first non-nil error a task returns is the group's error.
GroupError_LastWins(e) == IF e = NoErr THEN gErr ELSE e

GroupError(e) == IF gErr = NoErr THEN e ELSE gErr

\* part_003:435-439 / 445-449: what the task returns for Serve's error.
TaskResult(e) == IF e = E("ErrServerClosed") THEN NoErr ELSE e

\* Serve registers its listener; on a server already shutting down it returns
\* ErrServerClosed at once, closing the listener it was given.
ServeBegin(s) ==
    /\ Running
    /\ task[s] = "spawned"
    /\ IF srv[s].inShutdown
       THEN /\ task' = [task EXCEPT ![s] = "exited"]
            /\ ln' = [ln EXCEPT ![s] = "closed"]
            /\ gErr' = GroupError(TaskResult(E("ErrServerClosed")))
       ELSE /\ task' = [task EXCEPT ![s] = "serving"]
            /\ UNCHANGED <<ln, gErr>>
    /\ UNCHANGED <<pc, ret, ctxCancelled, shutdownCtx, node, badURL, config, bringUp, rp, unit, port, srv,
                   conn, built, runtimes, serviceNames, errCh, waited, prefs,
                   serveCfg, lcHung, curPrefs, newSC, sdIdx, hist>>

\* Accept fails on a server that is not shutting down: Serve closes the
\* listener and returns the error.
ServeAcceptError(s) ==
    /\ Running
    /\ task[s] = "serving"
    /\ ~srv[s].inShutdown
    /\ task' = [task EXCEPT ![s] = "exited"]
    /\ ln' = [ln EXCEPT ![s] = "closed"]
    /\ gErr' = GroupError(TaskResult(AcceptErr(s)))
    /\ hist' = [hist EXCEPT !.firstErr = IF @ = NoErr THEN AcceptErr(s) ELSE @]
    /\ UNCHANGED <<pc, ret, ctxCancelled, shutdownCtx, node, badURL, config, bringUp, rp, unit, port, srv,
                   conn, built, runtimes, serviceNames, errCh, waited, prefs,
                   serveCfg, lcHung, curPrefs, newSC, sdIdx>>

\* After Shutdown or Close, Serve returns ErrServerClosed.
ServeClosed(s) ==
    /\ Running
    /\ task[s] = "serving"
    /\ srv[s].inShutdown
    /\ task' = [task EXCEPT ![s] = "exited"]
    /\ gErr' = GroupError(TaskResult(E("ErrServerClosed")))
    /\ UNCHANGED <<pc, ret, ctxCancelled, shutdownCtx, node, badURL, config, bringUp, rp, unit, ln, port, srv,
                   conn, built, runtimes, serviceNames, errCh, waited, prefs,
                   serveCfg, lcHung, curPrefs, newSC, sdIdx, hist>>

\* g.Wait returns when every task has returned.
AllTasksExited == \A s \in Servers : task[s] = "exited"

\* part_003:453-454: go func() { errCh <- g.Wait() }()
WaitAndSend ==
    /\ Running
    /\ ~waited
    /\ AllTasksExited
    /\ errCh' = gErr
    /\ waited' = TRUE
    /\ UNCHANGED <<pc, ret, ctxCancelled, shutdownCtx, node, badURL, config, bringUp, rp, unit, ln, port, srv,
                   task, conn, built, runtimes, serviceNames, gErr, prefs,
                   serveCfg, lcHung, curPrefs, newSC, sdIdx, hist>>

\* --------------------------------------------------------------- environment
\* The root context is cancelled (signal).
Cancel ==
    /\ Running
    /\ ~ctxCancelled
    /\ ctxCancelled' = TRUE
    /\ UNCHANGED <<pc, ret, shutdownCtx, node, badURL, config, bringUp, rp, unit, ln, port, srv, task, conn,
                   built, runtimes, serviceNames, gErr, errCh, waited, prefs,
                   serveCfg, lcHung, curPrefs, newSC, sdIdx, hist>>

\* part_003:312: the 15 s of context.WithTimeout have passed.
DeadlineExpires ==
    /\ Running
    /\ shutdownCtx = "live"
    /\ shutdownCtx' = "expired"
    /\ hist' = [hist EXCEPT !.resultAtExpiry = (errCh # Empty)]
    /\ UNCHANGED <<pc, ret, ctxCancelled, node, badURL, config, bringUp, rp, unit, ln, port, srv, task, conn,
                   built, runtimes, serviceNames, gErr, errCh, waited, prefs,
                   serveCfg, lcHung, curPrefs, newSC, sdIdx>>

\* The local-control API stops answering.
LocalControlHangs ==
    /\ Running
    /\ node = "open"
    /\ ~lcHung
    /\ lcHung' = TRUE
    /\ UNCHANGED <<pc, ret, ctxCancelled, shutdownCtx, node, badURL, config, bringUp, rp, unit, ln, port, srv,
                   task, conn, built, runtimes, serviceNames, gErr, errCh, waited,
                   prefs, serveCfg, curPrefs, newSC, sdIdx, hist>>

OpenConns == Cardinality({s \in Servers : conn[s] # "none"})

\* A client connects to a serving server and sends a request.
ConnAccept(s) ==
    /\ Running
    /\ task[s] = "serving"
    /\ ~srv[s].inShutdown
    /\ conn[s] = "none"
    /\ OpenConns < MaxConns
    /\ conn' = [conn EXCEPT ![s] = "busy"]
    /\ UNCHANGED <<pc, ret, ctxCancelled, shutdownCtx, node, badURL, config, bringUp, rp, unit, ln, port, srv,
                   task, built, runtimes, serviceNames, gErr, errCh, waited,
                   prefs, serveCfg, lcHung, curPrefs, newSC, sdIdx, hist>>

\* The request ends: the connection is kept if keep-alives are on and the
\* server is not shutting down, and closed otherwise.
ConnRequestDone(s) ==
    /\ Running
    /\ conn[s] = "busy"
    /\ conn' = [conn EXCEPT ![s] =
                  IF srv[s].keepAlives /\ ~srv[s].inShutdown THEN "idle" ELSE "none"]
    /\ UNCHANGED <<pc, ret, ctxCancelled, shutdownCtx, node, badURL, config, bringUp, rp, unit, ln, port, srv,
                   task, built, runtimes, serviceNames, gErr, errCh, waited,
                   prefs, serveCfg, lcHung, curPrefs, newSC, sdIdx, hist>>

\* ------------------------------------------------------------ specification
\* Start from the local-client lookup (part_003:264) to its return.
StartAfterHost ==
    \/ StartMagicDNSSuffix
    \/ newRedirectServer
    \/ \E r \in Routes : buildRouteRuntimes(r)
    \/ startLocalServers
    \/ ensureAdvertiseServices_GetPrefs
    \/ ensureAdvertiseServices_EditPrefs
    \/ applyTailscaleServeConfig_GetServeConfig
    \/ applyTailscaleServeConfig_SetServeConfig
    \/ StartSelectRunning
    \/ removeAdvertiseServices_GetPrefs
    \/ removeAdvertiseServices_EditPrefs
    \/ bestEffortCleanupServeConfig_GetServeConfig
    \/ bestEffortCleanupServeConfig_SetServeConfig
    \/ shutdownLocalServers_Shutdown
    \/ shutdownLocalServers_Close
    \/ StartSelectShutdown

StartStep ==
    \/ StartCheckCtx
    \/ StartServiceHost
    \/ StartAfterHost

TaskStep ==
    \/ \E s \in Servers : ServeBegin(s)
    \/ \E s \in Servers : ServeClosed(s)
    \/ WaitAndSend

Environment ==
    \/ Cancel
    \/ LocalControlHangs
    \/ \E s \in Servers : ServeAcceptError(s)
    \/ \E s \in Servers : ConnAccept(s)
    \/ \E s \in Servers : ConnRequestDone(s)

Next == StartStep \/ TaskStep \/ DeadlineExpires \/ Environment

Spec == Init /\ [][Next]_vars

\* http.Server.Serve by its documented contract only ("Serve always returns a
\* non-nil error"): Serve may also come back with ErrServerClosed although this
\* program has not called Shutdown or Close. The task code has a branch for
\* that value (part_003:436-438, 446-448).
ServeReturnsClosed(s) ==
    /\ Running
    /\ task[s] = "serving"
    /\ ~srv[s].inShutdown
    /\ task' = [task EXCEPT ![s] = "exited"]
    /\ ln' = [ln EXCEPT ![s] = "closed"]
    /\ gErr' = GroupError(TaskResult(E("ErrServerClosed")))
    /\ hist' = [hist EXCEPT !.closedLive = @ \/ ~ctxCancelled]
    /\ UNCHANGED <<pc, ret, ctxCancelled, shutdownCtx, node, badURL, config, bringUp, rp, unit, port, srv,
                   conn, built, runtimes, serviceNames, errCh, waited, prefs,
                   serveCfg, lcHung, curPrefs, newSC, sdIdx>>

NextServeContract == Next \/ \E s \in Servers : ServeReturnsClosed(s)

SpecServeContract == Init /\ [][NextServeContract]_vars

\* The scheduler runs every goroutine that can take a step, and time passes:
\* the 15 s timer fires. Nothing obliges the environment to act.
\* Progress is examined for a Start that gets as far as serving: a live context,
\* well-formed backend URLs, and a control plane that already holds entries.
InitFair == Init /\ ~ctxCancelled /\ badURL = {} /\ prefs # <<>>

FairSpec ==
    /\ InitFair /\ [][Next]_vars
    /\ WF_vars(StartStep)
    /\ WF_vars(TaskStep)
    /\ WF_vars(DeadlineExpires)



\* ---------------------------------------------------------------- properties
Returned == pc = "returned"
\* Start went through the shutdown path (part_003:310-323).
AfterShutdown == Returned /\ shutdownCtx # "none"
\* Start is between its first line and the end of applyTailscaleServeConfig.
InStartup ==
    pc \in {"start", "host", "lc", "redirect", "build", "serve",
            "ens_get", "ens_edit", "sc_get", "sc_set"}
Published == hist.advertised \cup hist.served
\* The listener of s is closed, or the Serve call that owns it has not begun
\* (it closes the listener as soon as it does).
ListenerReleased(s) == ln[s] = "closed" \/ (ln[s] = "open" /\ task[s] = "spawned")
Stopped(s) ==
    /\ srv[s].closed
    /\ task[s] # "serving"
    /\ conn[s] = "none"
    /\ ListenerReleased(s)

C2_TaskErrorEndsStart ==
    (pc = "running" /\ ~ctxCancelled /\ gErr # NoErr) ~> (Returned \/ ctxCancelled)

C4_ShutdownWithdrawsGateway ==
    (AfterShutdown /\ ~hist.lcFailed) =>
        /\ \A s \in Servers : Stopped(s)
        /\ SeqToSet(prefs) \cap GatewayServices = {}
        /\ DOMAIN serveCfg.services \cap GatewayServices = {}

C4_Witness ==
    /\ AfterShutdown
    /\ ~hist.lcFailed
    /\ hist.served = GatewayServices
    /\ hist.advertised = GatewayServices
    /\ OperatorService \in SeqToSet(prefs)

\* C5: once the root context is cancelled in the running phase, Start
\* eventually returns, whatever the local-control API and the clients do.
C5_CancelledStartReturns ==
    (pc = "running" /\ ctxCancelled) ~> Returned

C5_Witness ==
    /\ Returned
    /\ ret = E("ErrDeadlineExceeded")
    /\ lcHung
    /\ hist.lcFailed

\* C6: when Start returns after a shutdown, every local server has keep-alives
\* disabled, has had a graceful Shutdown attempted and is closed with no
\* connection left, also when a connection never became idle.
C6_NoServerOpenAfterShutdown ==
    AfterShutdown =>
        \A s \in Servers :
            /\ ~srv[s].keepAlives
            /\ srv[s].graceful # "none"
            /\ srv[s].inShutdown
            /\ Stopped(s)

C6_Witness ==
    /\ AfterShutdown
    /\ \E s \in Servers : srv[s].graceful = "expired" /\ srv[s].closed

\* C7 as stated: after a shutdown Start returns the deadline error only if
\* the deadline expired while the servers' exit result was not yet available,
\* and otherwise the first non-nil server error (nil on a clean shutdown).
C7_DeadlineOnlyBeforeResult ==
    AfterShutdown =>
        IF ret = E("ErrDeadlineExceeded")
        THEN shutdownCtx = "expired" /\ ~hist.resultAtExpiry
        ELSE ret = hist.firstErr

\* C7 amended: after a shutdown Start returns either the deadline error, and
\* then the deadline had expired when Start made its final select, or the
\* value it received from errCh, which is the first non-nil error a Serve
\* task returned (nil if every Serve ended with ErrServerClosed).
C7_ShutdownResult ==
    AfterShutdown =>
        \/ ret = E("ErrDeadlineExceeded") /\ shutdownCtx = "expired" /\ ~hist.viaErrCh
        \/ ret = hist.firstErr /\ hist.viaErrCh

C7_Witness ==
    /\ AfterShutdown
    /\ ret = NoErr
    /\ shutdownCtx = "expired"

\* C8: if Start fails because a backend URL is malformed, no loopback
\* listener has been opened.
C8_MalformedURLOpensNothing ==
    (Returned /\ ret = E("ErrCreateProxy")) => \A s \in Servers : ln[s] = "none"

\* C9: if Start fails because a route's loopback port cannot be bound, no
\* listener opened earlier in the startup is still open.
C9_BindFailureClosesListeners ==
    (Returned /\ ret = E("ErrListenRoute")) => \A s \in Servers : ln[s] # "open"

\* C10: if Start fails because SetServeConfig failed at startup, no route
\* listener and no redirect listener is still open.
C10_SetServeConfigFailureClosesListeners ==
    (Returned /\ ret = E("ErrSetServeConfig")) => \A s \in Servers : ln[s] # "open"

\* A server is open from its construction until it is shut down or its Serve
\* call has returned; a listener is open from net.Listen until it is closed.
ServerOpen(s) == srv[s].made /\ ~srv[s].inShutdown /\ task[s] # "exited"
ListenerOpen(s) == ln[s] = "open"
\* The gateway's names are gone from the preferences and from the serve-config.
Withdrawn ==
    /\ SeqToSet(prefs) \cap GatewayServices = {}
    /\ DOMAIN serveCfg.services \cap GatewayServices = {}

\* C11: when Start returns the error of a local server that exited in the
\* running phase, after the gateway was published, the gateway's service names
\* and serve-config entries have been withdrawn and every server is stopped.
C11_TeardownBeforeError ==
    (Returned /\ shutdownCtx = "none" /\ hist.viaErrCh /\ ret # NoErr
       /\ hist.served = GatewayServices /\ ~lcHung)
        => Withdrawn /\ \A s \in Servers : Stopped(s)

\* C12: in every state, the loopback listener of a route is open exactly when
\* the route's HTTP server is open.
C12_ListenerAndServerPaired ==
    \A r \in Routes : ListenerOpen(r) <=> ServerOpen(r)

\* Start is in bestEffortCleanupServeConfig (part_003:482-502).
InShutdownReconcile == pc \in {"rm_get", "rm_edit", "cl_get", "cl_set"}

\* C13: on shutdown no local server is touched while the withdrawal from the
\* control plane is still under way, and once a server is being shut down the
\* withdrawal has been attempted: the gateway's names and entries are gone
\* unless a local-control call of the shutdown failed.
C13_WithdrawBeforeServerShutdown ==
    /\ InShutdownReconcile =>
          \A s \in Servers : /\ ~srv[s].inShutdown
                             /\ ~srv[s].closed
                             /\ srv[s].keepAlives
    /\ (shutdownCtx # "none" /\ \E s \in Servers : srv[s].inShutdown) =>
          (Withdrawn \/ hist.lcFailed)

C13_Witness ==
    /\ pc = "sd_wait"
    /\ sdIdx = 1
    /\ srv[ShutdownOrder[1]].inShutdown
    /\ hist.served = GatewayServices
    /\ ~hist.lcFailed
    /\ Withdrawn

\* C14: once startup has succeeded the serve-config holds exactly one service
\* entry per declared route, and the HTTPS handler of route r (host
\* r.<suffix>, TLS on) proxies to the loopback port of r's own listener, a
\* port no other local server was given.
C14_ServeConfigMatchesListeners ==
    pc = "running" =>
        /\ DOMAIN serveCfg.services = GatewayServices
        /\ Cardinality(DOMAIN serveCfg.services) = Cardinality(Routes)
        /\ \A r \in Routes :
              /\ ln[r] # "none"
              /\ port[r] \in Ports
              /\ DefaultHTTPSPort \in DOMAIN serveCfg.services[serviceNameForRoute(r)]
              /\ serveCfg.services[serviceNameForRoute(r)][DefaultHTTPSPort] =
                    WebHandler(TRUE, r, SuffixTs, Loopback(port[r]))
              /\ \A s \in Servers \ {r} : port[s] # port[r]

C14_Witness ==
    /\ pc = "running"
    /\ hist.served = GatewayServices
    /\ port[RouteNames[1]] > port[RouteNames[2]]
    /\ \A r \in Routes : ln[r] = "open"

\* ------------------------------------------- buildServicesServeConfig alone
\* Values of the http-port and https-port flags that are tried.
PortChoices == {0, DefaultHTTPPort, DefaultHTTPSPort}

\* Orders in which Go may iterate over cfg.Routes.
RouteOrders ==
    {o \in [1..Cardinality(Routes) -> Routes] : \A i, j \in DOMAIN o : o[i] = o[j] => i = j}

\* Ports the kernel may have handed to the local listeners: any distinct ones.
PortAssignments ==
    {pt \in [Servers -> Ports] : \A s, t \in Servers : pt[s] = pt[t] => s = t}

\* Start's state when buildRouteRuntimes and startLocalServers have succeeded
\* (part_003:286), apart from the control plane, the flags and Start's position.
Started(order, pt) ==
    /\ ret = NotReturned
    /\ ctxCancelled = FALSE
    /\ shutdownCtx = "none"
    /\ node = "open"
    /\ badURL = {}
    /\ bringUp = Online
    /\ rp = [r \in Routes |-> NewRouteProxy(URLHostPort, FlagConfig)]
    /\ unit = NoCall
    /\ ln = [s \in Servers |-> "open"]
    /\ port = pt
    /\ srv = [s \in Servers |-> [NewServer EXCEPT !.made = TRUE]]
    /\ task = [s \in Servers |-> "spawned"]
    /\ conn = [s \in Servers |-> "none"]
    /\ built = order
    /\ runtimes = order
    /\ serviceNames = SortStrings(GatewayServices)
    /\ gErr = NoErr
    /\ errCh = Empty
    /\ waited = FALSE
    /\ lcHung = FALSE
    /\ newSC = [services |-> <<>>, etag |-> 0]
    /\ sdIdx = 0

\* applyTailscaleServeConfig about to build the serve-config (part_003:471),
\* for any value of the two port flags and any ports of the listeners.
InitServeConfig ==
    /\ pc = "sc_get"
    /\ config \in [HTTPPort : PortChoices, HTTPSPort : PortChoices]
    /\ \E order \in RouteOrders, pt \in PortAssignments : Started(order, pt)
    /\ prefs = SortStrings(GatewayServices)
    /\ curPrefs = <<>>
    /\ serveCfg = [services |-> <<>>, etag |-> 1]
    /\ hist = [NoHist EXCEPT !.advertised = GatewayServices]

NextServeConfig ==
    \/ applyTailscaleServeConfig_GetServeConfig
    \/ applyTailscaleServeConfig_SetServeConfig

SpecServeConfig == InitServeConfig /\ [][NextServeConfig]_vars

\* C15: the config built with HTTP port 0 has no handler with TLS off, only
\* HTTPS handlers; built with a nonzero HTTP port it has, for every route, a
\* handler on that port with TLS off whose proxy is the shared redirect URL.
C15_HTTPEntriesFollowHTTPPort ==
    pc = "sc_set" =>
        LET hp == Uint16(config.HTTPPort)
            sc == newSC.services
        IN  /\ hp = 0 =>
                 \A sn \in DOMAIN sc : \A p \in DOMAIN sc[sn] :
                    sc[sn][p].tls /\ sc[sn][p].proxy # Loopback(port[Redirect])
            /\ hp # 0 =>
                 \A r \in Routes :
                    /\ serviceNameForRoute(r) \in DOMAIN sc
                    /\ hp \in DOMAIN sc[serviceNameForRoute(r)]
                    /\ sc[serviceNameForRoute(r)][hp] =
                          WebHandler(FALSE, r, SuffixTs, Loopback(port[Redirect]))

\* ------------------------------------- reconciliation against any control plane
\* "svc:aa": a second service that is not the gateway's; it sorts before "svc:api".
OtherService == <<115, 118, 99, 58, 97, 97>>

NamePool == GatewayServices \cup {OperatorService, OtherService}

\* AdvertiseServices as another client may have left it: any names in any
\* order, repeated or not.
PrefsLists == UNION {[1..n -> NamePool] : n \in 0..MaxPrefs}

\* Service entries of the serve-config that are not written by this run.
ForeignEntries ==
    (OperatorService :> OperatorEntry)
        @@ (serviceNameForRoute(RouteNames[1]) :> StaleEntry)

RestrictTo(f, D) == [x \in D \cap DOMAIN f |-> f[x]]

\* Ports as net.Listen hands them out when the lowest free one is taken.
PortsInOrder(order) ==
    [s \in Servers |->
        IF s = Redirect THEN 1
        ELSE 1 + (CHOOSE i \in DOMAIN order : order[i] = s)]

\* applyTailscaleServeConfig is entered (part_003:288) with the control plane
\* in any state.
InitReconcile ==
    /\ pc = "ens_get"
    /\ config = DefaultConfig
    /\ LET order == SortStrings(Routes) IN Started(order, PortsInOrder(order))
    /\ prefs \in PrefsLists
    /\ curPrefs = <<>>
    /\ \E D \in SUBSET DOMAIN ForeignEntries :
          serveCfg = [services |-> RestrictTo(ForeignEntries, D), etag |-> 1]
    /\ hist = NoHist

\* applyTailscaleServeConfig is called once more with the same arguments, no
\* other client having written since the first call returned.
applyTailscaleServeConfig_Again ==
    /\ pc = "running"
    /\ ~ctxCancelled
    /\ ~hist.second
    /\ ~hist.otherWriter
    /\ pc' = "ens_get"
    /\ hist' = [hist EXCEPT !.second = TRUE]
    /\ UNCHANGED <<ret, ctxCancelled, shutdownCtx, node, badURL, config, bringUp, rp, unit, ln, port,
                   srv, task, conn, built, runtimes, serviceNames, gErr, errCh,
                   waited, prefs, serveCfg, lcHung, curPrefs, newSC, sdIdx>>

\* Another client of the local API replaces AdvertiseServices while the
\* gateway is running (one such write, to either object, is followed).
OperatorEditsPrefs ==
    /\ pc = "running"
    /\ ~hist.otherWriter
    /\ \E l \in PrefsLists \ {prefs} : prefs' = l
    /\ hist' = [hist EXCEPT !.otherWriter = TRUE]
    /\ UNCHANGED <<pc, ret, ctxCancelled, shutdownCtx, node, badURL, config, bringUp, rp, unit, ln,
                   port, srv, task, conn, built, runtimes, serviceNames, gErr,
                   errCh, waited, serveCfg, lcHung, curPrefs, newSC, sdIdx>>

\* Another client adds or removes service entries of the serve-config.
OperatorSetsServeConfig ==
    /\ pc = "running"
    /\ ~hist.otherWriter
    /\ LET all == serveCfg.services @@ ForeignEntries
       IN  \E D \in SUBSET DOMAIN all :
              /\ RestrictTo(all, D) # serveCfg.services
              /\ serveCfg' = [services |-> RestrictTo(all, D),
                              etag |-> serveCfg.etag + 1]
    /\ hist' = [hist EXCEPT !.otherWriter = TRUE]
    /\ UNCHANGED <<pc, ret, ctxCancelled, shutdownCtx, node, badURL, config, bringUp, rp, unit, ln,
                   port, srv, task, conn, built, runtimes, serviceNames, gErr,
                   errCh, waited, prefs, lcHung, curPrefs, newSC, sdIdx>>

NextReconcile ==
    \/ ensureAdvertiseServices_GetPrefs
    \/ ensureAdvertiseServices_EditPrefs
    \/ applyTailscaleServeConfig_GetServeConfig
    \/ applyTailscaleServeConfig_SetServeConfig
    \/ applyTailscaleServeConfig_Again
    \/ OperatorEditsPrefs
    \/ OperatorSetsServeConfig
    \/ Cancel
    \/ StartSelectRunning
    \/ removeAdvertiseServices_GetPrefs
    \/ removeAdvertiseServices_EditPrefs
    \/ bestEffortCleanupServeConfig_GetServeConfig
    \/ bestEffortCleanupServeConfig_SetServeConfig

SpecReconcile == InitReconcile /\ [][NextReconcile]_vars

NotOurs(name) == name \notin GatewayServices

\* C16 as stated: when ensureAdvertiseServices has completed, the advertised
\* names are exactly the names derived from the declared routes.
C16_AdvertisedEqualsRoutes ==
    pc = "sc_get" => SeqToSet(prefs) = GatewayServices

\* C16 amended: when ensureAdvertiseServices has completed, the advertised
\* names are the names it found in the preferences together with the names
\* derived from the declared routes.
C16_AdvertisedIsPriorPlusRoutes ==
    pc = "sc_get" => SeqToSet(prefs) = SeqToSet(curPrefs) \cup GatewayServices

C16_Witness ==
    /\ pc = "sc_get"
    /\ hist.advertised = GatewayServices
    /\ {OperatorService, OtherService} \subseteq SeqToSet(curPrefs)
    /\ {OperatorService, OtherService} \subseteq SeqToSet(prefs)

\* C17: a list the gateway has written with EditPrefs, at startup or at
\* shutdown, is sorted and has no duplicates (the list differs from the one
\* GetPrefs returned exactly when EditPrefs wrote it).
C17_WrittenListsSorted ==
    /\ (pc = "sc_get" /\ prefs # curPrefs) => IsSortedNoDup(prefs)
    /\ (pc = "cl_get" /\ ~hist.lcFailed /\ prefs # curPrefs) => IsSortedNoDup(prefs)

\* C18: in a second run of applyTailscaleServeConfig that follows the first
\* with no other writer in between, neither EditPrefs nor SetServeConfig is
\* called.
C18_SecondRunWritesNothing ==
    hist.second => pc \notin {"ens_edit", "sc_set"}

\* C19: removeAdvertiseServices calls EditPrefs only if one of the gateway's
\* names is advertised, and what it leaves in AdvertiseServices is the list it
\* read without the gateway's names, the other names in their order.
C19_RemovesExactlyOwnNames ==
    /\ pc = "rm_edit" => SeqToSet(curPrefs) \cap GatewayServices # {}
    /\ (pc = "cl_get" /\ ~hist.lcFailed) =>
          /\ prefs = SelectSeq(curPrefs, NotOurs)
          /\ SeqToSet(prefs) = SeqToSet(curPrefs) \ GatewayServices

C19_Witness ==
    /\ pc = "cl_get"
    /\ ~hist.lcFailed
    /\ prefs # curPrefs
    /\ prefs = <<OperatorService, OtherService>>

\* C20: bestEffortCleanupServeConfig calls SetServeConfig only if the config
\* it read holds an entry of the gateway, the config it writes back is the one
\* it read without the gateway's entries, every other entry unchanged, and
\* that is what the control plane holds afterwards.
C20_CleanupTouchesOnlyOwnEntries ==
    /\ pc = "cl_set" =>
          /\ DOMAIN serveCfg.services \cap GatewayServices # {}
          /\ DOMAIN newSC.services = DOMAIN serveCfg.services \ GatewayServices
          /\ \A sn \in DOMAIN newSC.services :
                newSC.services[sn] = serveCfg.services[sn]
          /\ newSC.etag = serveCfg.etag
    /\ (pc = "sd_begin" /\ ~hist.lcFailed) =>
          /\ DOMAIN serveCfg.services \cap GatewayServices = {}
          /\ serveCfg.services = newSC.services

C20_Witness ==
    /\ pc = "sd_begin"
    /\ ~hist.lcFailed
    /\ hist.served = GatewayServices
    /\ serveCfg.etag > newSC.etag
    /\ DOMAIN serveCfg.services = {OperatorService}
    /\ serveCfg.services[OperatorService] = OperatorEntry

\* ------------------------------------- another client writes between read and write
\* Another client advertises a service of its own after the gateway's GetPrefs
\* and before the EditPrefs that follows it (part_007:14-37, 52-74).
ConcurrentEditsPrefs ==
    /\ pc \in {"ens_edit", "rm_edit"}
    /\ ~hist.otherWriter
    /\ \E n \in {OperatorService, OtherService} \ SeqToSet(prefs) :
          /\ prefs' = Append(prefs, n)
          /\ hist' = [hist EXCEPT !.otherWriter = TRUE, !.addedNames = {n}]
    /\ UNCHANGED <<pc, ret, ctxCancelled, shutdownCtx, node, badURL, config, bringUp, rp, unit, ln,
                   port, srv, task, conn, built, runtimes, serviceNames, gErr,
                   errCh, waited, serveCfg, lcHung, curPrefs, newSC, sdIdx>>

\* Another client adds its service entry to the serve-config after the
\* gateway's GetServeConfig and before the SetServeConfig that follows it
\* (part_003:472-475, 485-500).
ConcurrentSetsServeConfig ==
    /\ pc \in {"sc_set", "cl_set"}
    /\ ~hist.otherWriter
    /\ OperatorService \notin DOMAIN serveCfg.services
    /\ serveCfg' = [services |-> serveCfg.services @@ (OperatorService :> OperatorEntry),
                    etag |-> serveCfg.etag + 1]
    /\ hist' = [hist EXCEPT !.otherWriter = TRUE, !.addedEntries = {OperatorService}]
    /\ UNCHANGED <<pc, ret, ctxCancelled, shutdownCtx, node, badURL, config, bringUp, rp, unit, ln,
                   port, srv, task, conn, built, runtimes, serviceNames, gErr,
                   errCh, waited, prefs, lcHung, curPrefs, newSC, sdIdx>>

NextConcurrentEdit ==
    \/ NextReconcile
    \/ ConcurrentEditsPrefs
    \/ ConcurrentSetsServeConfig

SpecConcurrentEdit == InitReconcile /\ [][NextConcurrentEdit]_vars

\* C21: a name or a serve-config entry that another client wrote between the
\* gateway's read and its following write is still there after that write.
C21_ConcurrentEditNotLost ==
    /\ hist.addedNames \subseteq SeqToSet(prefs)
    /\ hist.addedEntries \subseteq DOMAIN serveCfg.services

\* Errors of the local-control calls of the reconciler.
ReconcileErrors ==
    {E("ErrGetPrefs"), E("ErrEditPrefs"), E("ErrGetServeConfig"), E("ErrSetServeConfig")}

\* C22: at startup Start gets past the preferences only if they hold the
\* gateway's names and reaches the running phase only if SetServeConfig wrote
\* the config; a GetPrefs or EditPrefs failure is returned with no serve-config
\* written. After a shutdown in which a reconcile call failed every server has
\* still been shut down, Start never returns a reconcile error, and unless the
\* deadline expired it returns what the servers reported.
C22_FatalAtStartupBestEffortAtShutdown ==
    /\ pc \in {"sc_get", "sc_set"} => GatewayServices \subseteq SeqToSet(prefs)
    /\ pc = "running" => hist.served = GatewayServices
    /\ (Returned /\ ret \in {E("ErrGetPrefs"), E("ErrEditPrefs")}) =>
          /\ shutdownCtx = "none"
          /\ hist.served = {}
          /\ serveCfg.etag = 1
    /\ (Returned /\ ret = E("ErrSetServeConfig")) => shutdownCtx = "none"
    /\ (AfterShutdown /\ hist.lcFailed) =>
          /\ \A s \in Servers : Stopped(s) /\ srv[s].graceful # "none"
          /\ ret \notin ReconcileErrors
          /\ shutdownCtx = "live" => ret = hist.firstErr

C22_Witness ==
    /\ AfterShutdown
    /\ hist.lcFailed
    /\ ~lcHung
    /\ shutdownCtx = "live"
    /\ ret = NoErr
    /\ GatewayServices \subseteq SeqToSet(prefs)
    /\ \A s \in Servers : srv[s].closed

\* ------------------------------------------------ startTailscaleServiceHost
\* tailscale_auth_test.go:56-151, step by step.  The counters of the bringUp
\* record stop counting at MaxCount.
MaxCount == 2

SatInc(n) == IF n < MaxCount THEN n + 1 ELSE n

\* ipn.State as StatusWithoutPeers reports it; the code tells apart only
\* "Running", "NeedsLogin" and the rest.
BackendStates == {"NoState", "Starting", "NeedsLogin", "Running"}

BringUpFrame ==
    UNCHANGED <<ctxCancelled, shutdownCtx, badURL, config, rp, unit, ln, port, srv, task,
                conn, built, runtimes, serviceNames, gErr, errCh, waited, prefs,
                serveCfg, lcHung, curPrefs, newSC, sdIdx, hist>>

\* tsServer.Close() on the started node.
NodeAfterClose_Skipped == node

NodeAfterClose == "closed"

\* "tsServer.Close(); return nil, err", and Start returns the wrapped error
\* (part_003:258-261) before its own deferred Close is registered.
startTailscaleServiceHost_Fail(kind) ==
    /\ node' = NodeAfterClose
    /\ pc' = "returned"
    /\ ret' = E(kind)

\* A call over HTTP with the context ctx: net/http refuses a request whose
\* context is already done, and the local API answers unless it hangs.
CtxCallAnswers == ~ctxCancelled
LocalCallAnswers == ~ctxCancelled /\ ~lcHung

\* tailscale_auth_test.go:63-83: the state directory is removed when
\* ForceCleanup is set, the tsnet.Server is made and started.  Neither
\* failure has a started node to close.
startTailscaleServiceHost_Start ==
    /\ pc = "host"
    /\ \/ /\ node' = "open"
          /\ pc' = "bu_lc"
          /\ ret' = ret
       \/ /\ \E e \in {"ErrRemoveState", "ErrNodeStart"} : ret' = E(e)
          /\ pc' = "returned"
          /\ node' = node
    /\ bringUp' = bringUp
    /\ BringUpFrame

\* tailscale_auth_test.go:85-90
startTailscaleServiceHost_LocalClient ==
    /\ pc = "bu_lc"
    /\ \/ /\ pc' = "bu_status"
          /\ UNCHANGED <<ret, node>>
       \/ startTailscaleServiceHost_Fail("ErrLocalClient")
    /\ bringUp' = bringUp
    /\ BringUpFrame

\* tailscale_auth_test.go:109: the login sequence runs for NeedsLogin until
\* it has completed once.
LoginNeeded_EveryTime(st) == st = "NeedsLogin"

LoginNeeded(st) == st = "NeedsLogin" /\ ~bringUp.loginDone

\* tailscale_auth_test.go:97-112: one status call and the switch on its answer.
startTailscaleServiceHost_Status ==
    /\ pc = "bu_status"
    /\ \/ /\ LocalCallAnswers
          /\ LET st == bringUp.state IN
             /\ bringUp' = [bringUp EXCEPT
                   !.seen = IF st = "NeedsLogin" THEN SatInc(@) ELSE @]
             /\ pc' = IF st = "Running" THEN "bu_up"
                      ELSE IF LoginNeeded(st) THEN "bu_key"
                      ELSE "bu_tick"
          /\ UNCHANGED <<ret, node>>
       \/ /\ LocalCallAnswers
          /\ startTailscaleServiceHost_Fail("ErrStatus")
          /\ bringUp' = bringUp
       \/ /\ ctxCancelled
          /\ startTailscaleServiceHost_Fail("ErrCtx")
          /\ bringUp' = bringUp
    /\ BringUpFrame

\* tailscale_auth_test.go:113-118: createNewAuthKey asks the admin API.
startTailscaleServiceHost_CreateAuthKey ==
    /\ pc = "bu_key"
    /\ \/ /\ CtxCallAnswers
          /\ bringUp' = [bringUp EXCEPT !.keys = SatInc(@)]
          /\ pc' = "bu_login"
          /\ UNCHANGED <<ret, node>>
       \/ /\ CtxCallAnswers
          /\ startTailscaleServiceHost_Fail("ErrAuthKey")
          /\ bringUp' = bringUp
       \/ /\ ctxCancelled
          /\ startTailscaleServiceHost_Fail("ErrCtx")
          /\ bringUp' = bringUp
    /\ BringUpFrame

\* tailscale_auth_test.go:120-131: lc.Start with the key, then
\* lc.StartLoginInteractive, then loginDone = true.
startTailscaleServiceHost_Login ==
    /\ pc = "bu_login"
    /\ \/ /\ LocalCallAnswers
          /\ bringUp' = [bringUp EXCEPT !.logins = SatInc(@), !.loginDone = TRUE]
          /\ pc' = "bu_tick"
          /\ UNCHANGED <<ret, node>>
       \/ /\ LocalCallAnswers
          /\ startTailscaleServiceHost_Fail("ErrLogin")
          /\ bringUp' = bringUp
       \/ /\ ctxCancelled
          /\ startTailscaleServiceHost_Fail("ErrCtx")
          /\ bringUp' = bringUp
    /\ BringUpFrame

\* tailscale_auth_test.go:133-138: select on ctx.Done() and the one-second
\* ticker; the tick always comes, and Go picks either case when both are ready.
startTailscaleServiceHost_Select ==
    /\ pc = "bu_tick"
    /\ \/ /\ pc' = "bu_status"
          /\ UNCHANGED <<ret, node>>
       \/ /\ ctxCancelled
          /\ startTailscaleServiceHost_Fail("ErrCtx")
    /\ bringUp' = bringUp
    /\ BringUpFrame

\* tailscale_auth_test.go:141-150: Up under a 30 s timeout derived from ctx.
\* Up comes back without error only once the node is Running; the timeout can
\* always end it.
startTailscaleServiceHost_Up ==
    /\ pc = "bu_up"
    /\ bringUp' = [bringUp EXCEPT !.upCalled = TRUE]
    /\ \/ /\ LocalCallAnswers
          /\ bringUp.state = "Running"
          /\ pc' = "lc"
          /\ UNCHANGED <<ret, node>>
       \/ /\ ~ctxCancelled
          /\ startTailscaleServiceHost_Fail("ErrUp")
       \/ /\ ctxCancelled
          /\ startTailscaleServiceHost_Fail("ErrCtx")
    /\ BringUpFrame

\* The positions inside the waitOnline loop, and inside the function.
PollingPcs == {"bu_status", "bu_key", "bu_login", "bu_tick"}
BringUpPcs == PollingPcs \cup {"bu_lc", "bu_up"}

\* The started node changes its backend state.
BackendStateChanges ==
    /\ pc \in BringUpPcs
    /\ \E st \in BackendStates \ {bringUp.state} :
          bringUp' = [bringUp EXCEPT !.state = st]
    /\ UNCHANGED <<pc, ret, node>>
    /\ BringUpFrame

startTailscaleServiceHost ==
    \/ startTailscaleServiceHost_Start
    \/ startTailscaleServiceHost_LocalClient
    \/ startTailscaleServiceHost_Status
    \/ startTailscaleServiceHost_CreateAuthKey
    \/ startTailscaleServiceHost_Login
    \/ startTailscaleServiceHost_Select
    \/ startTailscaleServiceHost_Up

\* Start up to the return of startTailscaleServiceHost.
NextBringUp ==
    \/ StartCheckCtx
    \/ startTailscaleServiceHost
    \/ BackendStateChanges
    \/ Cancel
    \/ LocalControlHangs

SpecBringUp == Init /\ [][NextBringUp]_vars

\* C23: an auth key is created, and a login made, only after a status answer
\* said NeedsLogin, and at most once in a bring-up however often NeedsLogin
\* is seen; a bring-up that never saw NeedsLogin creates no key and makes no
\* login call.
C23_AuthKeyOnlyOnNeedsLoginOnce ==
    /\ bringUp.keys <= 1
    /\ bringUp.logins <= bringUp.keys
    /\ bringUp.seen = 0 => bringUp.keys = 0 /\ bringUp.logins = 0
    /\ pc = "bu_key" => bringUp.seen >= 1 /\ bringUp.keys = 0 /\ ~bringUp.loginDone
    /\ pc = "bu_login" => bringUp.seen >= 1 /\ bringUp.keys = 1 /\ ~bringUp.loginDone
    /\ bringUp.loginDone <=> bringUp.logins = 1

\* NeedsLogin was reported more than once, one key was created, and the node
\* came up.
C23_Witness ==
    /\ pc = "lc"
    /\ node = "open"
    /\ bringUp.seen = MaxCount
    /\ bringUp.keys = 1
    /\ bringUp.logins = 1

\* The errors of startTailscaleServiceHost that come after tsServer.Start.
PastStartErrors ==
    {E(k) : k \in {"ErrLocalClient", "ErrStatus", "ErrAuthKey", "ErrLogin", "ErrUp"}}

\* C24: when startTailscaleServiceHost fails after the node's Start
\* succeeded, the node is closed by the time the error is returned; the node
\* is open at the return only when the bring-up succeeded.
C24_NodeClosedOnBringUpFailure ==
    /\ pc = "returned" => node # "open"
    /\ pc = "returned" /\ ret \in PastStartErrors => node = "closed"
    /\ pc = "returned" /\ ret = E("ErrCtx") /\ bringUp.state # "NoState"
          => node = "closed"
    /\ pc = "lc" => node = "open" /\ ret = NotReturned /\ bringUp.upCalled

\* Up failed after a login, and the node is closed at the return.
C24_Witness ==
    /\ pc = "returned"
    /\ ret = E("ErrUp")
    /\ bringUp.logins = 1
    /\ node = "closed"

\* The bring-up with its goroutine always scheduled: every call that can come
\* back does, and the ticker ticks.
FairBringUp ==
    /\ SpecBringUp
    /\ WF_vars(StartCheckCtx)
    /\ WF_vars(startTailscaleServiceHost)

\* C25: a bring-up that is polling, with the local API answering, either sees
\* the node reach Running or returns (with its error); it does not poll for
\* ever.
C25_StuckBringUpReturns ==
    (pc \in PollingPcs) ~> (pc = "returned" \/ bringUp.state = "Running" \/ lcHung)

\* server.Start with startTailscaleServiceHost in full, for well-formed routes.
InitStart == Init /\ badURL = {}

NextStart ==
    \/ StartCheckCtx
    \/ startTailscaleServiceHost
    \/ BackendStateChanges
    \/ StartAfterHost
    \/ TaskStep
    \/ DeadlineExpires
    \/ Environment

SpecStart ==
    /\ InitStart
    /\ [][NextStart]_vars
    /\ WF_vars(StartCheckCtx)
    /\ WF_vars(startTailscaleServiceHost)

\* C26: once the root context is cancelled while startTailscaleServiceHost is
\* in its polling loop, the function does not go on to Up: it returns, with
\* the node closed and the context's error.  Start entered with a cancelled
\* context returns the context's error at once, and has then started no node,
\* opened no listener and written nothing to the control plane.
C26_CancelEndsBringUp ==
    /\ [][ctxCancelled /\ pc \in PollingPcs
            => /\ pc' \in PollingPcs \cup {"returned"}
               /\ ~bringUp'.upCalled
               /\ pc' = "returned" => node' = "closed" /\ ret' = E("ErrCtx")]_vars
    /\ (ctxCancelled /\ pc \in PollingPcs) ~> (pc = "returned")
    /\ [][pc = "start" /\ ctxCancelled /\ pc' # pc
            => /\ pc' = "returned"
               /\ ret' = E("ErrCtx")
               /\ node' = "none"
               /\ UNCHANGED <<ln, prefs, serveCfg, bringUp>>]_vars
    /\ [](pc = "returned" /\ ret = E("ErrCtx") /\ node = "none"
            => /\ \A s \in Servers : ln[s] = "none" /\ ~srv[s].made
               /\ hist.advertised = {} /\ hist.served = {}
               /\ serveCfg.etag = 1
               /\ bringUp = NoBringUp)

\* The context was cancelled during the polling, after a NeedsLogin answer:
\* the node is closed, Up was not called.
C26_Witness ==
    /\ pc = "returned"
    /\ ret = E("ErrCtx")
    /\ node = "closed"
    /\ bringUp.seen >= 1
    /\ ~bringUp.upCalled

\* ------------------------------------------------------ RouteProxy.ServeHTTP
ProxyFrame ==
    UNCHANGED <<pc, ret, ctxCancelled, shutdownCtx, node, badURL, config,
                bringUp, unit, ln, port, srv, task, conn, built, runtimes,
                serviceNames, gErr, errCh, waited, prefs, serveCfg, lcHung,
                curPrefs, newSC, sdIdx, hist>>

\* http.StatusOK, http.StatusBadGateway
StatusOK == 200
StatusBadGateway == 502

\* The statuses a backend answers with (200 and 500 stand for all).
BackendStatuses == {StatusOK, 500}

\* Per-request timeouts a Config can carry, in seconds (time.Duration is signed).
RequestTimeouts == {-1, 0, 2, DefaultRequestTimeout}

Configs == {NilConfig} \cup {ConfigWith(t) : t \in RequestTimeouts}

\* "api.ts", the Host a tailnet client sends, and "a:80"
ServiceFQDN == RouteNames[1] \o Dot \o SuffixTs
InboundHosts == {ServiceFQDN, urlParse(URLHostPort).Host}

\* part_006:34-40: the Director, after the base director, sets the outgoing
\* request's Host.
DirectorHost_Inbound(target, inHost) == inHost

DirectorHost(target, inHost) == target.Host

\* part_006:67: the test that guards context.WithTimeout.
DeadlineAttached_NonZero(timeout) == timeout # 0

DeadlineAttached(timeout) == timeout > 0

\* part_006:63-73 with the Director: ServeHTTP takes a request and hands it,
\* with its context, to the reverse proxy.
ServeHTTP_Forward(r, inHost) ==
    /\ rp[r].made = "ok"
    /\ rp[r].req.phase \in {"none", "done"}
    /\ rp' = [rp EXCEPT ![r].req =
                [phase |-> "forwarding",
                 inHost |-> inHost,
                 outHost |-> DirectorHost(rp[r].targetURL, inHost),
                 deadline |-> DeadlineAttached(rp[r].requestTimeout),
                 cause |-> "none",
                 status |-> 0,
                 prev |-> rp[r].req.status]]
    /\ ProxyFrame

\* The transport can reach a backend only over http or https and with a host.
Reachable(target) ==
    /\ target.Scheme \in {SchemeHTTP, SchemeHTTPS}
    /\ target.Host # <<>>

\* The backend answered: its status is copied to the client, and ServeHTTP
\* logs the request and returns (part_006:73-93).
ServeHTTP_Response(r) ==
    /\ rp[r].req.phase = "forwarding"
    /\ Reachable(rp[r].targetURL)
    /\ \E st \in BackendStatuses :
          rp' = [rp EXCEPT ![r].req.phase = "done", ![r].req.status = st]
    /\ ProxyFrame

\* Why a round trip fails before a response header: the connection is refused
\* or the dial times out, no response header in time, the TLS handshake fails
\* (https), the request context's deadline passes (if it has one), or the
\* target cannot be dialled at all.
UpstreamFailures(q) ==
    IF ~Reachable(q.targetURL) THEN {"unsupported"}
    ELSE {"refused", "headerTimeout"}
         \cup (IF q.targetURL.Scheme = SchemeHTTPS THEN {"tls"} ELSE {})
         \cup (IF q.req.deadline THEN {"deadline"} ELSE {})

\* The upstream failure takes the route's Serve loop down with it.
ServeHTTP_ProxyError_Fatal(r) ==
    /\ rp[r].req.phase = "forwarding"
    /\ \E c \in UpstreamFailures(rp[r]) :
          rp' = [rp EXCEPT ![r].req.phase = "done",
                           ![r].req.cause = c,
                           ![r].req.status = StatusBadGateway]
    /\ task' = [task EXCEPT ![r] = "exited"]
    /\ UNCHANGED <<pc, ret, ctxCancelled, shutdownCtx, node, badURL, config,
                   bringUp, unit, ln, port, srv, conn, built, runtimes,
                   serviceNames, gErr, errCh, waited, prefs, serveCfg, lcHung,
                   curPrefs, newSC, sdIdx, hist>>

\* part_006:43-52: the round trip failed, the ErrorHandler logs and answers
\* 502; ServeHTTP logs the request and returns.
ServeHTTP_ProxyError(r) ==
    /\ rp[r].req.phase = "forwarding"
    /\ \E c \in UpstreamFailures(rp[r]) :
          rp' = [rp EXCEPT ![r].req.phase = "done",
                           ![r].req.cause = c,
                           ![r].req.status = StatusBadGateway]
    /\ ProxyFrame

\* One proxy, constructed and used as the unit tests do
\* (route_proxy_test.go:13-45).
ProxyUnderTest == RouteNames[1]

NewRouteProxy_Call(backendURL, cfg) ==
    /\ rp[ProxyUnderTest].made = "none"
    /\ rp' = [rp EXCEPT ![ProxyUnderTest] = NewRouteProxy(backendURL, cfg)]
    /\ ProxyFrame

InitRouteProxy == Init /\ ~ctxCancelled /\ badURL = {} /\ prefs = <<>>

NextRouteProxy ==
    \/ \E u \in BackendURLs, c \in Configs : NewRouteProxy_Call(u, c)
    \/ \E h \in InboundHosts : ServeHTTP_Forward(ProxyUnderTest, h)
    \/ ServeHTTP_Response(ProxyUnderTest)
    \/ ServeHTTP_ProxyError(ProxyUnderTest)

SpecRouteProxy == InitRouteProxy /\ [][NextRouteProxy]_vars

\* C27: the Host of every request a RouteProxy sends to its backend is the
\* host[:port] of the parsed backend URL, whatever Host the client sent.
C27_OutgoingHostIsBackendHost ==
    \A r \in Routes :
        rp[r].made = "ok" /\ rp[r].req.phase # "none"
        => /\ rp[r].req.outHost = urlParse(rp[r].backendURL).Host
           /\ rp[r].backendURL = URLHostPort => rp[r].req.outHost = <<97, 58, 56, 48>>
           /\ rp[r].backendURL = URLHTTPS => rp[r].req.outHost = <<98>>

\* A request that came with the service's name as Host was answered by the
\* backend "a:80".
C27_Witness ==
    LET q == rp[ProxyUnderTest] IN
    /\ q.made = "ok"
    /\ q.backendURL = URLHostPort
    /\ q.req.phase = "done"
    /\ q.req.status = StatusOK
    /\ q.req.inHost = ServiceFQDN
    /\ q.req.outHost = <<97, 58, 56, 48>>

\* C29: the request handed to the reverse proxy carries a gateway deadline
\* exactly when the proxy's per-request timeout is greater than 0; with a
\* timeout of 0 (or less) no request ends because of such a deadline.
C29_DeadlineIffPositiveTimeout ==
    \A r \in Routes :
        rp[r].made = "ok" /\ rp[r].req.phase # "none"
        => /\ rp[r].req.deadline <=> rp[r].requestTimeout > 0
           /\ rp[r].requestTimeout <= 0 => rp[r].req.cause # "deadline"

\* With timeout 0 a request went to the backend without deadline and was
\* answered.
C29_Witness ==
    LET q == rp[ProxyUnderTest] IN
    /\ q.made = "ok"
    /\ q.requestTimeout = 0
    /\ q.req.phase = "done"
    /\ ~q.req.deadline
    /\ q.req.status = StatusOK

\* C30: NewRouteProxy returns a proxy only for a backend URL that parses and
\* begins with "http://" or "https://".
C30_ConstructorRejectsNonHTTP ==
    \A r \in Routes :
        rp[r].made = "ok"
        => /\ ~urlParse(rp[r].backendURL).err
           /\ \/ HasPrefix(rp[r].backendURL, PrefixHTTP)
              \/ HasPrefix(rp[r].backendURL, PrefixHTTPS)

\* ------------------------------------------------- the gateway serving requests
\* The route server of r hands a request to its RouteProxy while its Serve
\* loop runs; the client addresses the service by its name under the suffix.
RouteHost(r) == r \o Dot \o SuffixTs

RouteAcceptsRequest(r) ==
    /\ task[r] = "serving"
    /\ ~srv[r].inShutdown
    /\ ServeHTTP_Forward(r, RouteHost(r))

\* Start from startLocalServers' return to the end of its running phase, the
\* Serve goroutines, and the requests of the routes.
InitServing == InitReconcile /\ prefs = <<>> /\ serveCfg.services = <<>>

NextServing ==
    \/ ensureAdvertiseServices_GetPrefs
    \/ ensureAdvertiseServices_EditPrefs
    \/ applyTailscaleServeConfig_GetServeConfig
    \/ applyTailscaleServeConfig_SetServeConfig
    \/ StartSelectRunning
    \/ \E s \in Servers : ServeBegin(s)
    \/ \E s \in Servers : ServeAcceptError(s)
    \/ WaitAndSend
    \/ Cancel
    \/ \E r \in Routes : RouteAcceptsRequest(r)
    \/ \E r \in Routes : ServeHTTP_Response(r)
    \/ \E r \in Routes : ServeHTTP_ProxyError(r)

SpecServing == InitServing /\ [][NextServing]_vars

\* C28: a request whose round trip to the backend failed is answered 502,
\* and handling a request (whatever its outcome) changes nothing of Start,
\* of the Serve goroutines, of the listeners or of the other route's proxy:
\* a Serve loop ends only on an accept error, and Start leaves its running
\* phase only for the context's cancellation or the tasks' result.
C28_UpstreamFailureIsLocal ==
    /\ [](\A r \in Routes :
            rp[r].req.phase = "done" /\ rp[r].req.cause # "none"
            => rp[r].req.status = StatusBadGateway)
    /\ [][\A r \in Routes :
            rp'[r] # rp[r]
            => /\ UNCHANGED <<pc, ret, node, task, ln, srv, gErr, errCh, waited,
                              shutdownCtx, prefs, serveCfg>>
               /\ \A o \in Routes \ {r} : rp'[o] = rp[o]]_vars
    /\ [](\A s \in Servers : task[s] = "exited" => hist.firstErr # NoErr)
    /\ [](pc = "rm_get" => ctxCancelled)
    /\ [](pc = "returned" /\ ret \notin ReconcileErrors
            => hist.viaErrCh /\ hist.firstErr # NoErr)

\* A route answered 502 for an upstream failure and 200 for its next request,
\* the other route answered 200, and the gateway is running with every server
\* serving.
C28_Witness ==
    /\ pc = "running"
    /\ ret = NotReturned
    /\ \A s \in Servers : task[s] = "serving" /\ ln[s] = "open"
    /\ rp[RouteNames[1]].req.phase = "done"
    /\ rp[RouteNames[1]].req.prev = StatusBadGateway
    /\ rp[RouteNames[1]].req.status = StatusOK
    /\ rp[RouteNames[2]].req.phase = "done"
    /\ rp[RouteNames[2]].req.status = StatusOK

\* ------------------------------------------------- the --route flag's Action
\* A function called on its own leaves the gateway as it is (not started).
UnitFrame ==
    UNCHANGED <<pc, ret, ctxCancelled, shutdownCtx, node, badURL, config,
                bringUp, rp, ln, port, srv, task, conn, built, runtimes,
                serviceNames, gErr, errCh, waited, prefs, serveCfg, lcHung,
                curPrefs, newSC, sdIdx, hist>>

InitUnit == InitGateway /\ ~ctxCancelled /\ badURL = {} /\ prefs = <<>>

\* part_003:77-99, called with a list of route specs of at most MaxSpecs.
MaxSpecs == 2

\* "api=http://a", "API=https://b", "web=http://a", " Web = http://a",
\* "app=a:80", "api"
RouteSpecLower == <<97, 112, 105, 61>> \o PrefixHTTP \o <<97>>
RouteSpecUpper == <<65, 80, 73, 61>> \o PrefixHTTPS \o <<98>>
RouteSpecWeb == <<119, 101, 98, 61>> \o PrefixHTTP \o <<97>>
RouteSpecSpaces == <<32, 87, 101, 98, 32, 61, 32>> \o PrefixHTTP \o <<97>>
RouteSpecNoPrefix == <<97, 112, 112, 61, 97, 58, 56, 48>>
RouteSpecNoEquals == <<97, 112, 105>>

RouteSpecs ==
    {RouteSpecLower, RouteSpecUpper, RouteSpecWeb, RouteSpecSpaces,
     RouteSpecNoPrefix, RouteSpecNoEquals}

RouteSpecLists == UNION {[1..n -> RouteSpecs] : n \in 0..MaxSpecs}

\* strings.TrimSpace for ASCII white space
IsSpace(c) == c \in {9, 10, 11, 12, 13, 32}

RECURSIVE TrimLeft(_)
TrimLeft(s) ==
    IF s # <<>> /\ IsSpace(Head(s)) THEN TrimLeft(Tail(s)) ELSE s

RECURSIVE TrimRight(_)
TrimRight(s) ==
    IF s # <<>> /\ IsSpace(s[Len(s)]) THEN TrimRight(SubSeq(s, 1, Len(s) - 1)) ELSE s

TrimSpace(s) == TrimRight(TrimLeft(s))

\* strings.SplitN(v, "=", 2): one part without '=', else the parts before and
\* after the first '='.
SplitN2(v) ==
    LET i == IndexByte(v, 61) IN
    IF i = 0 THEN <<v>>
    ELSE <<SubSeq(v, 1, i - 1), SubSeq(v, i + 1, Len(v))>>

\* part_003:89-93: the name looked up for the duplicate test is the trimmed
\* name as given.
DuplicateKey(name) == name

\* part_003:78: routes := make(map[string]string)
RouteActionCall(values) ==
    [fn |-> "routeAction", values |-> values, i |-> 1, routes |-> <<>>,
     result |-> "running"]

\* part_003:79-97: one iteration of the loop over values.
RouteAction_Iterate ==
    /\ unit.fn = "routeAction"
    /\ unit.result = "running"
    /\ unit.i <= Len(unit.values)
    /\ LET parts == SplitN2(unit.values[unit.i]) IN
       IF Len(parts) # 2
       THEN unit' = [unit EXCEPT !.result = "errFormat"]
       ELSE LET name == TrimSpace(parts[1])
                backend == TrimSpace(parts[2])
            IN  IF DuplicateKey(name) \in DOMAIN unit.routes
                THEN unit' = [unit EXCEPT !.result = "errDuplicate"]
                ELSE IF ~HasPrefix(backend, PrefixHTTP) /\ ~HasPrefix(backend, PrefixHTTPS)
                THEN unit' = [unit EXCEPT !.result = "errBackend"]
                ELSE unit' = [unit EXCEPT
                        !.routes = [k \in DOMAIN unit.routes \cup {ToLower(name)} |->
                                       IF k = ToLower(name) THEN backend
                                       ELSE unit.routes[k]],
                        !.i = @ + 1]
    /\ UnitFrame

\* part_003:98: return nil
RouteAction_Return ==
    /\ unit.fn = "routeAction"
    /\ unit.result = "running"
    /\ unit.i > Len(unit.values)
    /\ unit' = [unit EXCEPT !.result = "ok"]
    /\ UnitFrame

InitRouteAction ==
    /\ InitUnit
    /\ \E values \in RouteSpecLists : unit = RouteActionCall(values)

NextRouteAction == RouteAction_Iterate \/ RouteAction_Return

\* The route name a spec gives, trimmed and lower-cased.
RouteNameOf(v) == ToLower(TrimSpace(SplitN2(v)[1]))

SpecRouteAction == InitRouteAction /\ [][NextRouteAction]_vars

\* C31: when the Action accepts a list of route specs, no two of them name
\* the same route once the names are lower-cased, the stored names are lower
\* case, and every stored backend begins with "http://" or "https://".
C31_RouteSpecsValidated ==
    unit.fn = "routeAction" /\ unit.result = "ok"
    => /\ \A i, j \in DOMAIN unit.values :
            i # j => RouteNameOf(unit.values[i]) # RouteNameOf(unit.values[j])
       /\ \A k \in DOMAIN unit.routes :
            /\ k = ToLower(k)
            /\ \/ HasPrefix(unit.routes[k], PrefixHTTP)
               \/ HasPrefix(unit.routes[k], PrefixHTTPS)

\* ------------------------------------------------------------ magicDNSSuffix
\* "tx": a domain other than the tailnet's; ".ts" and " ts " as an operator
\* may write the tailscale-domain flag.
SuffixOther == <<116, 120>>
ConfiguredDomains ==
    {<<>>, SuffixTs, <<46>> \o SuffixTs, <<32>> \o SuffixTs \o <<32>>, SuffixOther}

\* st.CurrentTailnet: nil, or a tailnet with its MagicDNSSuffix.
NilTailnet == [nil |-> TRUE, MagicDNSSuffix |-> <<>>]
Tailnets == {NilTailnet} \cup {[nil |-> FALSE, MagicDNSSuffix |-> s] : s \in {<<>>, SuffixTs}}

\* strings.TrimPrefix(s, ".")
TrimDot(s) == IF HasPrefix(s, <<46>>) THEN Tail(s) ELSE s

\* part_003:334-359 after a status call that answered: the suffix returned
\* (empty: the error), and whether the mismatch warning is logged.
ReturnedSuffix_Configured(magicSuffix, configuredDomain) ==
    IF configuredDomain # <<>> THEN configuredDomain ELSE magicSuffix

ReturnedSuffix(magicSuffix, configuredDomain) == magicSuffix

magicDNSSuffix(tailnet, tailscaleDomain) ==
    LET magicSuffix == IF tailnet.nil THEN <<>> ELSE tailnet.MagicDNSSuffix
        configuredDomain == TrimDot(TrimSpace(tailscaleDomain))
    IN  [warned |-> /\ configuredDomain # <<>>
                    /\ magicSuffix # <<>>
                    /\ configuredDomain # magicSuffix,
         err |-> magicSuffix = <<>>,
         suffix |-> IF magicSuffix = <<>> THEN <<>>
                    ELSE ReturnedSuffix(magicSuffix, configuredDomain)]

\* The status the node will report and the configured domain.
SuffixCall(tailnet, tailscaleDomain) ==
    [fn |-> "magicDNSSuffix", tailnet |-> tailnet,
     tailscaleDomain |-> tailscaleDomain, called |-> FALSE,
     result |-> [warned |-> FALSE, err |-> FALSE, suffix |-> <<>>]]

\* part_003:264-272: LocalClient, then magicDNSSuffix with its status call.
StartMagicDNSSuffix_Call ==
    /\ pc = "lc"
    /\ unit.fn = "magicDNSSuffix"
    /\ \/ /\ CallSucceeds
          /\ LET res == magicDNSSuffix(unit.tailnet, unit.tailscaleDomain) IN
             /\ unit' = [unit EXCEPT !.called = TRUE, !.result = res]
             /\ IF res.err
                THEN Return("ErrSuffixEmpty")
                ELSE /\ pc' = "redirect"
                     /\ UNCHANGED <<ret, node>>
       \/ /\ CallFails(ctxCancelled)
          /\ \E e \in {"ErrLocalClient", "ErrStatus"} : Return(e)
          /\ unit' = unit
    /\ UNCHANGED <<ctxCancelled, shutdownCtx, badURL, config, bringUp, rp, ln,
                   port, srv, task, conn, built, runtimes, serviceNames, gErr,
                   errCh, waited, prefs, serveCfg, lcHung, curPrefs, newSC,
                   sdIdx, hist>>

\* Start up to the return of startLocalServers, for every status answer and
\* configured domain.
InitSuffix ==
    /\ InitGateway
    /\ \E t \in Tailnets, d \in ConfiguredDomains : unit = SuffixCall(t, d)

NextSuffix ==
    \/ StartCheckCtx
    \/ StartServiceHost
    \/ StartMagicDNSSuffix_Call
    \/ newRedirectServer
    \/ \E r \in Routes : buildRouteRuntimes(r)
    \/ startLocalServers
    \/ Cancel

SpecSuffix == InitSuffix /\ [][NextSuffix]_vars

\* C32: magicDNSSuffix returns the suffix the status reported whenever that
\* is non-empty, whatever the configured domain (a differing one is only
\* warned about); with an empty reported suffix it returns an error, Start
\* returns it, and no listener was opened and nothing written to the control
\* plane.
C32_ReportedSuffixWins ==
    unit.fn = "magicDNSSuffix" /\ unit.called
    => LET reported == IF unit.tailnet.nil THEN <<>> ELSE unit.tailnet.MagicDNSSuffix
           configured == TrimDot(TrimSpace(unit.tailscaleDomain))
       IN  /\ reported # <<>>
              => /\ ~unit.result.err
                 /\ unit.result.suffix = reported
                 /\ unit.result.warned <=> configured \notin {<<>>, reported}
                 /\ ret # E("ErrSuffixEmpty")
           /\ reported = <<>>
              => /\ unit.result.err
                 /\ pc = "returned"
                 /\ ret = E("ErrSuffixEmpty")
                 /\ \A s \in Servers : ln[s] = "none" /\ ~srv[s].made
                 /\ hist.advertised = {} /\ hist.served = {}
                 /\ serveCfg.etag = 1

\* The configured domain differs from the reported suffix; Start went on with
\* the reported one and has its servers started.
C32_Witness ==
    /\ unit.fn = "magicDNSSuffix"
    /\ unit.tailscaleDomain = SuffixOther
    /\ unit.result.warned
    /\ unit.result.suffix = SuffixTs
    /\ pc = "ens_get"
    /\ \A s \in Servers : ln[s] = "open"


\* ------------------------------------------------------------ redirect server
MaxRequests == 2
StatusPermanentRedirect == 308
Localhost == <<108, 111, 99, 97, 108, 104, 111, 115, 116>>

\* Request targets as they arrive on the request line: "/p?q", "/p", "/p?",
\* "/", "/a^b" (a byte net/url re-encodes) and "/a%5Eb?q".
TargetPathQuery == <<47, 112, 63, 113>>
TargetPath == <<47, 112>>
TargetForceQuery == <<47, 112, 63>>
TargetRoot == <<47>>
TargetCaret == <<47, 97, 94, 98>>
TargetEscaped == <<47, 97, 37, 53, 69, 98, 63, 113>>
RequestTargets ==
    {TargetPathQuery, TargetPath, TargetForceQuery, TargetRoot, TargetCaret,
     TargetEscaped}
RequestHosts == {<<>>, <<104>>}

HexVal(b) == IF IsDigit(b) THEN b - 48 ELSE IF b >= 97 THEN b - 87 ELSE b - 55
HexDigit(n) == IF n < 10 THEN 48 + n ELSE 55 + n

\* net/url unescape and escape in path mode, and validEncoded.
RECURSIVE Unescape(_)
Unescape(s) ==
    IF s = <<>> THEN <<>>
    ELSE IF s[1] = 37 /\ Len(s) >= 3
         THEN <<HexVal(s[2]) * 16 + HexVal(s[3])>> \o Unescape(SubSeq(s, 4, Len(s)))
         ELSE <<s[1]>> \o Unescape(Tail(s))

\* "-_.~" and "$&+,/:;=@" stay as they are in a path.
ShouldEscape(b) ==
    ~(IsLetter(b) \/ IsDigit(b)
      \/ b \in {45, 95, 46, 126, 36, 38, 43, 44, 47, 58, 59, 61, 64})

RECURSIVE Escape(_)
Escape(s) ==
    IF s = <<>> THEN <<>>
    ELSE (IF ShouldEscape(s[1])
          THEN <<37, HexDigit(s[1] \div 16), HexDigit(s[1] % 16)>>
          ELSE <<s[1]>>) \o Escape(Tail(s))

\* "!$&'()*+,;=:@[]" and "%" are accepted in an encoded path.
ValidEncoded(s) ==
    \A i \in 1..Len(s) :
        \/ s[i] \in {33, 36, 38, 39, 40, 41, 42, 43, 44, 59, 61, 58, 64, 91, 93, 37}
        \/ ~ShouldEscape(s[i])

\* url.ParseRequestURI of an origin-form target: the request's r.URL.
ParseRequestURI(target) ==
    LET q == IndexByte(target, 63)
        force == q = Len(target) /\ q > 0
        rawPath == IF q = 0 THEN target ELSE SubSeq(target, 1, q - 1)
        path == Unescape(rawPath)
    IN  [Path |-> path,
         RawPath |-> IF Escape(path) = rawPath THEN <<>> ELSE rawPath,
         ForceQuery |-> force,
         RawQuery |-> IF q = 0 THEN <<>> ELSE SubSeq(target, q + 1, Len(target))]

EscapedPath(u) ==
    IF u.RawPath # <<>> /\ ValidEncoded(u.RawPath) /\ Unescape(u.RawPath) = u.Path
    THEN u.RawPath
    ELSE Escape(u.Path)

\* URL.RequestURI: encoded path, then "?" and the query when there is one.
RequestURI_PathOnly(u) ==
    IF EscapedPath(u) = <<>> THEN <<47>> ELSE EscapedPath(u)

RequestURI(u) ==
    (IF EscapedPath(u) = <<>> THEN <<47>> ELSE EscapedPath(u))
    \o (IF u.ForceQuery \/ u.RawQuery # <<>> THEN <<63>> \o u.RawQuery ELSE <<>>)

\* part_003:372-380: the handler of the redirect server.
RedirectHandler(req) ==
    LET trimmed == TrimSpace(req.Host)
        host == IF trimmed = <<>> THEN Localhost ELSE trimmed
    IN  [status |-> StatusPermanentRedirect,
         Location |-> PrefixHTTPS \o host \o RequestURI(req.URL)]

RedirectRequests ==
    {[Host |-> h, target |-> t, URL |-> ParseRequestURI(t)] :
        h \in RequestHosts, t \in RequestTargets}

\* The redirect server answers one more request.
RedirectServe ==
    /\ unit.fn = "redirect"
    /\ Len(unit.log) < MaxRequests
    /\ \E req \in RedirectRequests :
         unit' = [unit EXCEPT !.log = Append(@, [req |-> req,
                                                  resp |-> RedirectHandler(req)])]
    /\ UnitFrame

InitRedirect == InitUnit /\ unit = [fn |-> "redirect", log |-> <<>>]
NextRedirect == RedirectServe
SpecRedirect == InitRedirect /\ [][NextRedirect]_vars

\* The part of a target after "https://" and the host: decoded path, and the
\* query with its "?".
TargetParts(t) ==
    LET q == IndexByte(t, 63) IN
    [path |-> Unescape(IF q = 0 THEN t ELSE SubSeq(t, 1, q - 1)),
     query |-> IF q = 0 THEN <<>> ELSE SubSeq(t, q, Len(t))]

MaxNameLen == 3

\* "Auth key for TSGW route: "
DescriptionTemplate ==
    <<65, 117, 116, 104, 32, 107, 101, 121, 32, 102, 111, 114, 32, 84, 83, 71,
      87, 32, 114, 111, 117, 116, 101, 58, 32>>

\* Bytes a route name is built from: "a", "Z", "7", "-", "." and the two bytes
\* of U+00E9 (0xC3 0xA9), in any arrangement.
NameBytes == {97, 90, 55, 45, 46, 195, 169}
RouteNameInputs == UNION {[1..n -> NameBytes] : n \in 0..MaxNameLen}

\* tailscale_authkey.go:41: the runes written through unchanged.
AllowedRune(r) == IsLetter(r) \/ IsDigit(r) \/ r \in {32, 45, 95}

\* Width of the rune `range` decodes at position i: 1 for ASCII, 2 for a
\* two-byte lead (0xC2..0xDF) followed by a continuation byte, and 1 for a
\* byte that starts no valid encoding (decoded as U+FFFD). The inputs hold no
\* lead byte of a longer encoding.
RuneWidth(s, i) ==
    IF s[i] >= 194 /\ s[i] <= 223 /\ i < Len(s) /\ s[i + 1] >= 128 /\ s[i + 1] <= 191
    THEN 2 ELSE 1

\* The rune itself: its code point when ASCII, otherwise a value above 127
\* (no such rune is allowed, so its exact value does not matter).
RuneAt(s, i) ==
    IF RuneWidth(s, i) = 2 THEN (s[i] - 192) * 64 + (s[i + 1] - 128)
    ELSE IF s[i] < 128 THEN s[i] ELSE 65533

SanitizeCall(routeName) ==
    [fn |-> "sanitize", description |-> DescriptionTemplate \o routeName,
     i |-> 1, b |-> <<>>, result |-> "running"]

\* tailscale_authkey.go:40-46: one iteration of the range loop.
Sanitize_Iterate ==
    /\ unit.fn = "sanitize"
    /\ unit.result = "running"
    /\ unit.i <= Len(unit.description)
    /\ LET r == RuneAt(unit.description, unit.i)
           w == RuneWidth(unit.description, unit.i)
       IN  unit' = [unit EXCEPT
                      !.i = @ + w,
                      !.b = IF AllowedRune(r)
                            THEN @ \o SubSeq(unit.description, unit.i, unit.i + w - 1)
                            ELSE Append(@, 95)]
    /\ UnitFrame

\* tailscale_authkey.go:47: sanitizedDesc := b.String()
Sanitize_Return ==
    /\ unit.fn = "sanitize"
    /\ unit.result = "running"
    /\ unit.i > Len(unit.description)
    /\ unit' = [unit EXCEPT !.result = "done"]
    /\ UnitFrame

InitSanitize == InitUnit /\ \E n \in RouteNameInputs : unit = SanitizeCall(n)
NextSanitize == Sanitize_Iterate \/ Sanitize_Return
SpecSanitize == InitSanitize /\ [][NextSanitize]_vars

\* C34: the sanitized description has the byte length of the description,
\* keeps each byte in [A-Za-z0-9 _-] and has one "_" in place of every other
\* byte.
C34_SanitizedBytewise ==
    unit.fn = "sanitize" /\ unit.result = "done"
    => /\ Len(unit.b) = Len(unit.description)
       /\ \A i \in 1..Len(unit.b) :
            unit.b[i] = IF AllowedRune(unit.description[i])
                        THEN unit.description[i] ELSE 95


\* ------------------------------------------------------------ maskString
MaxSecretLen == 10

\* "..."
Ellipsis == <<46, 46, 46>>

\* Secrets of up to MaxSecretLen bytes over "k" and "-".
SecretInputs == UNION {[1..n -> {107, 45}] : n \in 0..MaxSecretLen}

\* config.go:352-357
maskString_Always(s) ==
    (IF Len(s) <= 8 THEN s ELSE SubSeq(s, 1, 8)) \o Ellipsis

maskString(s) == IF Len(s) <= 8 THEN s ELSE SubSeq(s, 1, 8) \o Ellipsis

MaskCall(s) == [fn |-> "maskString", s |-> s, called |-> FALSE, result |-> <<>>]

MaskString_Call ==
    /\ unit.fn = "maskString"
    /\ ~unit.called
    /\ unit' = [unit EXCEPT !.called = TRUE, !.result = maskString(unit.s)]
    /\ UnitFrame

InitMask == InitUnit /\ \E s \in SecretInputs : unit = MaskCall(s)
NextMask == MaskString_Call
SpecMask == InitMask /\ [][NextMask]_vars

\* C35: maskString gives back an input of at most 8 bytes unchanged, the
\* empty one included, and for a longer input its first 8 bytes followed by
\* "..."; two inputs that agree on their first 8 bytes and are both longer
\* than 8 get the same output, so no later byte shows.
C35_MaskKeepsEightBytes ==
    unit.fn = "maskString" /\ unit.called
    => /\ Len(unit.s) <= 8 => unit.result = unit.s
       /\ Len(unit.s) > 8
          => /\ Len(unit.result) = 11
             /\ \A i \in 1..8 : unit.result[i] = unit.s[i]
             /\ \A i \in 9..11 : unit.result[i] = 46
             /\ \A t \in SecretInputs :
                  Len(t) > 8 /\ SubSeq(t, 1, 8) = SubSeq(unit.s, 1, 8)
                  => maskString(t) = unit.result

\* A 10-byte secret whose last two bytes differ from what is shown.
C35_Witness ==
    /\ unit.fn = "maskString"
    /\ unit.called
    /\ unit.s = <<107, 107, 107, 107, 107, 107, 107, 107, 45, 45>>
    /\ unit.result = <<107, 107, 107, 107, 107, 107, 107, 107>> \o Ellipsis


\* ------------------------------------------------ ensureAdvertiseServices
\* C36: ensureAdvertiseServices drops no name it found advertised; what it
\* writes is the sorted union, without repetition, of the names it found and
\* the desired names; and it skips EditPrefs exactly when that union is the
\* list it found, element for element.
C36_MergeKeepsAdvertised ==
    LET union == SortStrings(SeqToSet(curPrefs) \cup SeqToSet(serviceNames)) IN
    /\ pc = "ens_edit" => union # curPrefs
    /\ pc = "sc_get"
       => /\ SeqToSet(curPrefs) \subseteq SeqToSet(prefs)
          /\ IF prefs = curPrefs
             THEN curPrefs = union
             ELSE prefs = union /\ IsSortedNoDup(prefs)

\* The operator's name was advertised, out of order and twice, with one of
\* the gateway's names; EditPrefs has written the sorted union.
C36_Witness ==
    /\ pc = "sc_get"
    /\ curPrefs = <<OperatorService, OperatorService, serviceNameForRoute(RouteNames[1])>>
    /\ prefs # curPrefs
    /\ SeqToSet(prefs) = GatewayServices \cup {OperatorService}


\* ------------------------------------------------ applyTailscaleServeConfig
\* C37: the serve-config the startup reconciliation hands to SetServeConfig
\* is a merge with the one the node holds: every entry of a service that is
\* not one of the gateway's is in it unchanged, so it is still there once the
\* write is done.
C37_StartupWriteKeepsForeignEntries ==
    pc = "sc_set" /\ ~hist.second
    => \A sn \in DOMAIN serveCfg.services \ GatewayServices :
          /\ sn \in DOMAIN newSC.services
          /\ newSC.services[sn] = serveCfg.services[sn]


\* ------------------------------------------------------------ deferred Close
\* C38: once bring-up has given Start a running node, Start does not return
\* with the node still open, whichever path it returns by; and the node is
\* closed only on return: from the local-client call to the final select it
\* is open.
C38_NodeClosedExactlyOnReturn ==
    /\ pc = "returned" => node # "open"
    /\ node = "closed" => pc = "returned"
    /\ pc \notin {"start", "host", "returned"} => node = "open"

\* Start has returned by the expiry of the shutdown deadline, after a
\* completed startup.
C38_Witness ==
    /\ pc = "returned"
    /\ ret = E("ErrDeadlineExceeded")
    /\ hist.served = GatewayServices
    /\ node = "closed"


\* ------------------------------------------------------------ port narrowing
\* Values the integer flags --http-port and --https-port may carry: the
\* usual ones, and two that do not fit 16 bits.
FlagPortChoices == PortChoices \cup {65536, 65536 + DefaultHTTPPort}

\* applyTailscaleServeConfig is entered (part_003:288) with any pair of flag
\* values.
InitPorts ==
    /\ pc = "sc_get"
    /\ config \in [HTTPPort : FlagPortChoices, HTTPSPort : FlagPortChoices]
    /\ \E order \in RouteOrders, pt \in PortAssignments : Started(order, pt)
    /\ prefs = SortStrings(GatewayServices)
    /\ curPrefs = <<>>
    /\ serveCfg = [services |-> <<>>, etag |-> 1]
    /\ hist = [NoHist EXCEPT !.advertised = GatewayServices]

SpecPorts == InitPorts /\ [][NextServeConfig]_vars

\* C39: the ports under which the serve-config publishes each route are the
\* configured integers themselves: every route has handlers on exactly the
\* nonzero ones among the configured HTTP and HTTPS ports, so the conversion
\* to 16 bits neither moves a port nor makes a nonzero one vanish.
C39_PublishedPortsAreConfigured ==
    pc = "sc_set"
    => LET configured == {config.HTTPPort, config.HTTPSPort} \ {0}
       IN  /\ configured # {} => DOMAIN newSC.services = GatewayServices
           /\ \A sn \in DOMAIN newSC.services :
                 DOMAIN newSC.services[sn] = configured


\* ------------------------------------------------------------ RouteManager
NumThreads == 2
StatusNotFound == 404
Threads == 1..NumThreads

\* FQDNs routes are registered under and requests arrive for.
ManagerHosts == {RouteNames[1] \o Dot \o SuffixTs, RouteNames[2] \o Dot \o SuffixTs}

\* Get, Add, Count, Close (server.go:29-80), the iteration of
\* startHTTPServers (part_001:49-56) and a request through
\* createRequestHandler (server.go:82-94), which calls Get.
ManagerOps == {"Get", "Add", "Count", "Close", "startHTTPServers", "Request"}
OpsWithHost == {"Get", "Add", "Request"}

\* Whether the operation assigns to rm.Routes or to one of its keys.
Mutates(op) == op \in {"Add", "Close"}

\* The lock each operation takes before it touches rm.Routes.
LockKind_AllRead(op) == "read"

LockKind(op) == IF op \in {"Add", "Close"} THEN "write" ELSE "read"

IdleThread ==
    [pc |-> "idle", op |-> "none", host |-> <<>>, found |-> FALSE, n |-> 0,
     status |-> 0, body |-> "", sawClosed |-> FALSE]

\* server.go:22-26; writer 0 stands for an unheld write lock. closed and
\* removed record the last Close that no Add has followed.
NewRouteManager ==
    [fn |-> "RouteManager", Routes |-> {}, readers |-> {}, writer |-> 0,
     closed |-> FALSE, removed |-> {}, thr |-> [t \in Threads |-> IdleThread]]

\* A goroutine calls one of the operations.
RouteManager_Call(t) ==
    /\ unit.thr[t].pc = "idle"
    /\ \E op \in ManagerOps :
         \E h \in IF op \in OpsWithHost THEN ManagerHosts ELSE {<<>>} :
            unit' = [unit EXCEPT !.thr[t] = [IdleThread EXCEPT !.pc = "lock",
                                                               !.op = op,
                                                               !.host = h]]

\* sync.RWMutex: RLock waits for the writer to leave, Lock for the writer and
\* all readers.
RouteManager_Lock(t) ==
    /\ unit.thr[t].pc = "lock"
    /\ unit.writer = 0
    /\ IF LockKind(unit.thr[t].op) = "read"
       THEN unit' = [unit EXCEPT !.readers = @ \cup {t}, !.thr[t].pc = "access"]
       ELSE /\ unit.readers = {}
            /\ unit' = [unit EXCEPT !.writer = t, !.thr[t].pc = "access"]

\* The body of the operation between taking and releasing the lock.
RouteManager_Access(t) ==
    /\ unit.thr[t].pc = "access"
    /\ LET th == unit.thr[t] IN
       CASE th.op \in {"Get", "Request"} ->
              unit' = [unit EXCEPT !.thr[t].pc = "unlock",
                                   !.thr[t].found = th.host \in unit.Routes,
                                   !.thr[t].sawClosed = unit.closed]
         [] th.op = "Add" ->
              unit' = [unit EXCEPT !.thr[t].pc = "unlock",
                                   !.Routes = @ \cup {th.host},
                                   !.closed = FALSE, !.removed = {}]
         [] th.op \in {"Count", "startHTTPServers"} ->
              unit' = [unit EXCEPT !.thr[t].pc = "unlock",
                                   !.thr[t].n = Cardinality(unit.Routes),
                                   !.thr[t].sawClosed = unit.closed]
         [] th.op = "Close" ->
              unit' = [unit EXCEPT !.thr[t].pc = "unlock",
                                   !.Routes = {},
                                   !.closed = TRUE, !.removed = unit.Routes]

\* The deferred unlock; for a request, the handler then answers
\* (server.go:86-92; status 0: the request went on to the proxy).
RouteManager_Unlock(t) ==
    /\ unit.thr[t].pc = "unlock"
    /\ LET th == unit.thr[t]
           notFound == th.op = "Request" /\ ~th.found
       IN  unit' = [unit EXCEPT
                      !.readers = @ \ {t},
                      !.writer = IF @ = t THEN 0 ELSE @,
                      !.thr[t].pc = "done",
                      !.thr[t].status = IF notFound THEN StatusNotFound ELSE 0,
                      !.thr[t].body = IF notFound THEN "Host not found" ELSE ""]

RouteManager_Return(t) ==
    /\ unit.thr[t].pc = "done"
    /\ unit' = [unit EXCEPT !.thr[t] = IdleThread]

InitRouteManager == InitUnit /\ unit = NewRouteManager

NextRouteManager ==
    \E t \in Threads :
        /\ \/ RouteManager_Call(t)
           \/ RouteManager_Lock(t)
           \/ RouteManager_Access(t)
           \/ RouteManager_Unlock(t)
           \/ RouteManager_Return(t)
        /\ UnitFrame

SpecRouteManager == InitRouteManager /\ [][NextRouteManager]_vars

\* C40: a goroutine inside an operation that reads rm.Routes holds the read
\* lock and one inside an operation that mutates it holds the write lock, so
\* no goroutine is inside any operation while another mutates the map; a Get
\* or Count that runs after a Close (no Add since) finds nothing, and a
\* request for a host without a route is answered 404 "Host not found".
C40_RoutesGuardedByLock ==
    unit.fn = "RouteManager"
    => /\ \A t \in Threads :
            unit.thr[t].pc \in {"access", "unlock"}
            => /\ IF Mutates(unit.thr[t].op)
                  THEN unit.writer = t
                  ELSE t \in unit.readers
               /\ Mutates(unit.thr[t].op)
                  => \A u \in Threads \ {t} :
                        unit.thr[u].pc \notin {"access", "unlock"}
       /\ unit.closed => unit.Routes = {}
       /\ \A t \in Threads :
            unit.thr[t].pc = "done"
            => LET th == unit.thr[t] IN
               /\ th.sawClosed => ~th.found /\ th.n = 0
               /\ th.op = "Request"
                  => IF th.found
                     THEN th.status # StatusNotFound
                     ELSE th.status = StatusNotFound /\ th.body = "Host not found"

\* A request has been answered 404 for a host that the Close before it
\* removed, while the other goroutine waits to add a route.
C40_Witness ==
    /\ unit.fn = "RouteManager"
    /\ unit.thr[1].pc = "done"
    /\ unit.thr[1].op = "Request"
    /\ unit.thr[1].sawClosed
    /\ unit.thr[1].host \in unit.removed
    /\ unit.thr[1].status = StatusNotFound
    /\ unit.thr[2].pc = "lock"
    /\ unit.thr[2].op = "Add"

=============================================================================
